---- MODULE Spec2Model ----
(***************************************************************************)
(* Activation-code service: the code codec (Code._generate / Code.verify), *)
(* the ledger operations Code.auth / Code.authAgain over the key-value     *)
(* store, the advisory lock, and the encrypted endpoints of routes/api.ts. *)
(*                                                                         *)
(* Strings are sequences of one-character strings; a SHA-256 digest is one *)
(* element [sha256 |-> input] standing for its 64 hex characters (none of  *)
(* which is a colon).  Hashing and AES-GCM are ideal: a digest determines  *)
(* its input, a sealed box opens only under the key and nonce it was made  *)
(* with.                                                                   *)
(***************************************************************************)
EXTENDS Integers, Sequences, FiniteSets, TLC

(***************************************************************************)
(* Numbers and strings                                                     *)
(*                                                                         *)
(* A number is [int |-> i], NaN, or a non-integer [whole |-> w, tenth |-> f]*)
(* (w + f/10).  A character is [c |-> "x"]; a byte is [b |-> n].           *)
(***************************************************************************)

Num(i) == [int |-> i]

\* The JavaScript value NaN (parseInt of a string with no leading digits).
NaN == [nan |-> TRUE]

\* A non-integer number w + f/10 (0 < f < 10), e.g. 1.5 is Frac(1, 5).
Frac(w, f) == [whole |-> w, tenth |-> f]

IsInt(x) == DOMAIN x = {"int"}

\* Relational operators and arithmetic are applied to integers and NaN only (server
\* times, whole periods and the results of parseInt): a comparison with NaN is false.
JsLt(a, b) == IsInt(a) /\ IsInt(b) /\ a.int < b.int

JsLe(a, b) == IsInt(a) /\ IsInt(b) /\ a.int <= b.int

JsGe(a, b) == IsInt(a) /\ IsInt(b) /\ a.int >= b.int

\* a + b and a - b on numbers: NaN is absorbing.
JsAdd(a, b) == IF IsInt(a) /\ IsInt(b) THEN Num(a.int + b.int) ELSE NaN

JsSub(a, b) == IF IsInt(a) /\ IsInt(b) THEN Num(a.int - b.int) ELSE NaN

Ch(x) == [c |-> x]

\* The string whose characters are the one-character strings of tuple t.
Str(t) == [i \in 1..Len(t) |-> Ch(t[i])]

DigitChars == <<"0", "1", "2", "3", "4", "5", "6", "7", "8", "9">>

IsChr(e) == DOMAIN e = {"c"}

IsDigit(e) == IsChr(e) /\ \E d \in 1..Len(DigitChars) : DigitChars[d] = e.c

DigitVal(x) == (CHOOSE d \in 1..Len(DigitChars) : DigitChars[d] = x) - 1

RECURSIVE Digits(_)
\* Decimal digits of a natural number.
Digits(n) ==
    IF n < Len(DigitChars) THEN <<Ch(DigitChars[n + 1])>>
    ELSE Digits(n \div Len(DigitChars)) \o <<Ch(DigitChars[(n % Len(DigitChars)) + 1])>>

\* Number to string, as a template literal `${x}` or x.toString() formats it.
NumToString(x) ==
    IF IsInt(x) THEN (IF x.int < 0 THEN Str(<<"-">>) \o Digits(0 - x.int) ELSE Digits(x.int))
    ELSE IF x = NaN THEN Str(<<"N", "a", "N">>)
    ELSE Digits(x.whole) \o Str(<<".">>) \o Digits(x.tenth)

RECURSIVE LeadingDigits(_)
\* The longest prefix of s made of decimal digits.
LeadingDigits(s) ==
    IF s = <<>> THEN <<>>
    ELSE IF ~IsDigit(Head(s)) THEN <<>>
    ELSE <<Head(s)>> \o LeadingDigits(Tail(s))

RECURSIVE DigitsValue(_, _)
\* Value of a digit string, most significant digit first (acc is the value so far).
DigitsValue(s, acc) ==
    IF s = <<>> THEN acc
    ELSE DigitsValue(Tail(s), acc * Len(DigitChars) + DigitVal(Head(s).c))

\* parseInt(s, 10): optional sign, then the leading digits; NaN when there are none.
parseInt(s) ==
    LET signed == s # <<>> /\ Head(s) \in {Ch("-"), Ch("+")}
        neg    == s # <<>> /\ Head(s) = Ch("-")
        body   == IF signed THEN Tail(s) ELSE s
        ds     == LeadingDigits(body)
    IN  IF ds = <<>> THEN NaN
        ELSE IF neg THEN Num(0 - DigitsValue(ds, 0)) ELSE Num(DigitsValue(ds, 0))

RECURSIVE SplitFrom(_, _, _)
\* s.split(sep): cur is the part being collected.
SplitFrom(s, sep, cur) ==
    IF s = <<>> THEN <<cur>>
    ELSE IF Head(s) = sep THEN <<cur>> \o SplitFrom(Tail(s), sep, <<>>)
    ELSE SplitFrom(Tail(s), sep, Append(cur, Head(s)))

split(s, sep) == SplitFrom(s, sep, <<>>)

\* The string of `length` copies of the character x.
Repeat(x, length) == [i \in 1..length |-> Ch(x)]

(***************************************************************************)
(* Bytes: TextEncoder / TextDecoder on the ASCII characters the codec uses *)
(***************************************************************************)

AsciiChars == {":", "-", ".", "+", "N", "a", "A", "B", "C", "X"}

AsciiCode(x) ==
    CASE x = ":" -> 58
      [] x = "-" -> 45
      [] x = "." -> 46
      [] x = "+" -> 43
      [] x = "N" -> 78
      [] x = "a" -> 97
      [] x = "A" -> 65
      [] x = "B" -> 66
      [] x = "C" -> 67
      [] x = "X" -> 88
      [] OTHER   -> 48 + DigitVal(x)

Byte(n) == [b |-> n]

IsByte(e) == DOMAIN e = {"b"}

\* A digest element stands for its hex characters and is carried through unchanged.
TextEncode(s) == [i \in 1..Len(s) |-> IF IsChr(s[i]) THEN Byte(AsciiCode(s[i].c)) ELSE s[i]]

ByteChar(e) ==
    IF ~IsByte(e) THEN e
    ELSE IF \E x \in AsciiChars : AsciiCode(x) = e.b
         THEN Ch(CHOOSE x \in AsciiChars : AsciiCode(x) = e.b)
    ELSE IF e.b >= 48 /\ e.b < 48 + Len(DigitChars) THEN Ch(DigitChars[e.b - 48 + 1])
    ELSE Ch("?")

TextDecode(u) == [i \in 1..Len(u) |-> ByteChar(u[i])]

(***************************************************************************)
(* Cryptographic primitives and Base64                                     *)
(***************************************************************************)

\* Hash.sha256: the hex digest, one element that determines its input.
sha256(data) == <<[sha256 |-> data]>>

IV_LENGTH == 12

MIN_ENCRYPTED_LENGTH == 28

\* The GCM tag takes what MIN_ENCRYPTED_LENGTH leaves after the nonce.
TagLength == MIN_ENCRYPTED_LENGTH - IV_LENGTH

\* AES.getAesKey: the HKDF-derived key of a server key (labels of CRYPTO_CONFIG).
getAesKey(serverKey) ==
    [hkdf |-> serverKey, salt |-> "license-system", info |-> "activation-code"]

\* AES.encrypt with the random nonce iv: the nonce, then the GCM ciphertext and tag.
\* The ciphertext and tag are one element, the sealed box of (key, nonce, plaintext),
\* which stands for Len(plaintext) + TagLength bytes, none of them recognisable.
AES_encrypt(plaintext, keyBytes, iv) ==
    iv \o <<[box |-> [key |-> keyBytes, iv |-> iv, p |-> TextEncode(plaintext)]]>>

IsBox(e) == DOMAIN e = {"box"}

RECURSIVE ByteLength(_)
\* Number of bytes a buffer stands for.
ByteLength(data) ==
    IF data = <<>> THEN 0
    ELSE (IF IsBox(Head(data)) THEN Len(Head(data).box.p) + TagLength ELSE 1)
         + ByteLength(Tail(data))

\* AES.decrypt: [ok |-> FALSE] stands for the thrown error (short data, or a
\* ciphertext that does not authenticate under this key and the nonce in front of it).
AES_decrypt(data, keyBytes) ==
    IF ByteLength(data) < MIN_ENCRYPTED_LENGTH THEN [ok |-> FALSE, text |-> <<>>]
    ELSE IF /\ Len(data) = IV_LENGTH + 1
            /\ IsBox(data[IV_LENGTH + 1])
            /\ data[IV_LENGTH + 1].box.key = keyBytes
            /\ data[IV_LENGTH + 1].box.iv = SubSeq(data, 1, IV_LENGTH)
         THEN [ok |-> TRUE, text |-> TextDecode(data[IV_LENGTH + 1].box.p)]
    ELSE [ok |-> FALSE, text |-> <<>>]

\* Base64.fromBuffer: the Base64 text of a byte buffer.
Base64_fromBuffer(buffer) == [b64 |-> buffer]

\* Base64.toUint8Array: the bytes of a Base64 text; [ok |-> FALSE] when atob throws.
Base64_toUint8Array(base64) ==
    IF DOMAIN base64 = {"b64"} THEN [ok |-> TRUE, bytes |-> base64.b64]
    ELSE [ok |-> FALSE, bytes |-> <<>>]

(***************************************************************************)
(* Code._generate and Code.verify                                          *)
(***************************************************************************)

COLON_CHAR_CODE == 58

RANDOM_S_LENGTH == 10

PRODUCT_ID_LENGTH == 12

Colon == Str(<<":">>)

\* Code._generate at server time t, with the random salt randomS and nonce iv.
_generate(aesKey, productId, expirationPeriod, activationDuration, amount, randomS, iv, t) ==
    LET s1 == randomS \o Colon \o productId
        s2 == Colon \o NumToString(JsAdd(Num(t), expirationPeriod))
                \o Colon \o NumToString(activationDuration)
                \o Colon \o NumToString(amount)
        mixed == sha256(sha256(s1) \o Colon \o sha256(s2))
        plaintext == s1 \o Colon \o mixed
        u1 == AES_encrypt(plaintext, getAesKey(aesKey), iv)
        u2 == TextEncode(s2)
    IN  Base64_fromBuffer(u1 \o u2)

RECURSIVE ColonScan(_, _, _, _)
\* The loop of findNthColonFromEnd at 0-based index i with colonCount colons seen.
ColonScan(data, n, i, colonCount) ==
    IF i < 0 THEN 0 - 1
    ELSE IF data[i + 1] = Byte(COLON_CHAR_CODE)
         THEN IF colonCount + 1 = n THEN i ELSE ColonScan(data, n, i - 1, colonCount + 1)
    ELSE ColonScan(data, n, i - 1, colonCount)

\* Mutant: the scan starts one byte before the last.
findNthColonFromEnd_skipLast(data, n) == ColonScan(data, n, Len(data) - 2, 0)

\* 0-based index of the n-th colon byte counted from the end, or -1.
findNthColonFromEnd(data, n) == ColonScan(data, n, Len(data) - 1, 0)

VerifyFail == <<FALSE, <<>>, Num(0), Num(0)>>

\* Mutant: the product id of the code is not compared with the expected one.
ProductMatches_any(prodId, productId) == TRUE

\* if (prodId !== productId) return [false, "", 0, 0] -- the test, negated.
ProductMatches(prodId, productId) == prodId = productId

\* Mutant: the expiry of the code is not checked.
CodeExpired_never(expirationTime, t) == FALSE

\* Mutant: a code is already expired at the instant of its expiry.
CodeExpired_atExpiry(expirationTime, t) == JsLe(expirationTime, Num(t))

\* if (expirationTime < serverT.now()) return [false, "", 0, 0] -- the test.
CodeExpired(expirationTime, t) == JsLt(expirationTime, Num(t))

\* Mutant: the integrity hash is not compared.
HashMatches_any(recombined, mixed) == TRUE

\* if (recombined !== mixed) return [false, "", 0, 0] -- the test, negated.
HashMatches(recombined, mixed) == recombined = mixed

\* Code.verify at server time t.
verify(aesKey, code, productId, t) ==
    LET dec == Base64_toUint8Array(code)
    IN  IF ~dec.ok THEN VerifyFail
        ELSE
        LET codeU8     == dec.bytes
            splitIndex == findNthColonFromEnd(codeU8, 3)
        IN  IF splitIndex = 0 - 1 THEN VerifyFail
            ELSE
            LET u1 == SubSeq(codeU8, 1, splitIndex)
                u2 == SubSeq(codeU8, splitIndex + 1, Len(codeU8))
                s2 == TextDecode(u2)
                decrypted == AES_decrypt(u1, getAesKey(aesKey))
            IN  IF ~decrypted.ok THEN VerifyFail
                ELSE
                LET parts == split(decrypted.text, Ch(":"))
                IN  IF Len(parts) < 3 THEN VerifyFail
                    ELSE
                    LET randomS == parts[1]
                        prodId  == parts[2]
                        mixed   == parts[3]
                        s2Parts == split(s2, Ch(":"))
                    IN  IF ~ProductMatches(prodId, productId) THEN VerifyFail
                        ELSE IF Len(s2Parts) < 4 THEN VerifyFail
                        ELSE
                        LET expirationTime     == parseInt(s2Parts[2])
                            activationDuration == parseInt(s2Parts[3])
                            amount             == parseInt(s2Parts[4])
                            recombined == sha256(sha256(randomS \o Colon \o prodId)
                                                 \o Colon \o sha256(s2))
                        IN  IF CodeExpired(expirationTime, t) THEN VerifyFail
                            ELSE IF ~HashMatches(recombined, mixed) THEN VerifyFail
                            ELSE <<TRUE, productId, activationDuration, amount>>

(***************************************************************************)
(* State                                                                   *)
(***************************************************************************)

VARIABLES
    now,        \* serverT.now(): server time in seconds since the base timestamp
    kv,         \* the key-value store: key -> [v |-> text, ttl |-> {expiry time} or {}]
    issued,     \* the activation codes generated so far, with their parameters
    vres,       \* the direct Code.verify call that has just returned, with its result
    proc,       \* per caller: position in Code.auth / Code.authAgain and its locals
    nextUuid,   \* number of the next value crypto.randomUUID() returns
    granted,    \* the successful Code.auth returns so far: [uuid, code, binding, remaining]
    http,       \* the API worker: the request being handled, its locals and its response
    setter,     \* per admin caller: position in Product.set and its locals
    aes         \* class AES: the derived-key cache, and per caller its getAesKey call

vars == <<now, kv, issued, vres, proc, nextUuid, granted, http, setter, aes>>

\* Bounds of the model.
MaxTime == 2

MaxUses == 2

Procs == {"p1", "p2"}

\* SERVER_KEY, and a second secret the server does not use.
ServerKey == "server-key"

\* Outcomes of randomString and of the random nonce that the model draws.
randomString(length) == {Repeat("A", length), Repeat("B", length)}

RandomIvs == {[i \in 1..IV_LENGTH |-> Byte(0)], [i \in 1..IV_LENGTH |-> Byte(COLON_CHAR_CODE)]}

ProductIds == randomString(PRODUCT_ID_LENGTH)

Bindings == {Str(<<"A">>), Str(<<"B">>)}

(***************************************************************************)
(* The key-value store                                                     *)
(***************************************************************************)

\* kv.get(key) at the current time: an entry whose TTL has elapsed is gone.
StoreGet(store, key) ==
    IF key \in DOMAIN store /\ \A e \in store[key].ttl : now < e
    THEN [found |-> TRUE, v |-> store[key].v]
    ELSE [found |-> FALSE, v |-> <<>>]

KvGet(key) == StoreGet(kv, key)

KvNull == [found |-> FALSE, v |-> <<>>]

\* JavaScript truthiness of a kv.get result: null and "" are falsy.
Truthy(r) == r.found /\ r.v # <<>>

\* The store after kv.put(key, value) without / with expirationTtl.
KvPut(store, key, value) ==
    [k \in DOMAIN store \cup {key} |-> IF k = key THEN [v |-> value, ttl |-> {}] ELSE store[k]]

KvPutTtl(store, key, value, expirationTtl) ==
    [k \in DOMAIN store \cup {key} |->
        IF k = key THEN [v |-> value, ttl |-> {now + expirationTtl}] ELSE store[k]]

\* The store after kv.delete(key).
KvDelete(store, key) == [k \in DOMAIN store \ {key} |-> store[k]]

\* Entries of the store still alive at time t.
Alive(store, t) == [k \in {x \in DOMAIN store : \A e \in store[x].ttl : t < e} |-> store[k]]

(***************************************************************************)
(* AdvisoryLock (kvLock)                                                   *)
(***************************************************************************)

\* The store key of the held flag of lock `name`.
LockKey(name) == <<[lock |-> name]>>

Held == Str(<<"1">>)

\* kvLock.release: deletes the flag unconditionally.
release(store, name) == KvDelete(store, LockKey(name))

(***************************************************************************)
(* Code.auth and Code.authAgain                                            *)
(***************************************************************************)

CODE_PREFIX == Str(<<"C", ":">>)

CODE_INFO_PREFIX == Str(<<"C", "I", ":">>)

\* key = CODE_PREFIX + sha256(code): the lock name and the usage-counter key.
CodeKey(code) == CODE_PREFIX \o sha256(code)

InfoKey(uuid) == CODE_INFO_PREFIX \o uuid

AuthFail == <<FALSE, <<>>, Num(0)>>

\* JSON.stringify of an ICodeInfo, and JSON.parse of a stored text.
JSONstringify(info) == <<[json |-> info]>>

JSONparse(text) ==
    IF Len(text) = 1 /\ DOMAIN text[1] = {"json"} THEN [ok |-> TRUE, value |-> text[1].json]
    ELSE [ok |-> FALSE, value |-> <<>>]

NoCode == [raw |-> "none"]

Idle ==
    [pc |-> "idle", op |-> "none", code |-> NoCode, productId |-> <<>>, binding |-> <<>>,
     uuid |-> <<>>, ver |-> VerifyFail, usedStr |-> KvNull, ciStr |-> KvNull,
     newUuid |-> <<>>, expirationTime |-> Num(0), pending |-> {}, out |-> AuthFail,
     threw |-> FALSE, slept |-> FALSE]

\* The caller starts Code.auth(kv, SERVER_KEY, code, productId, binding).
CallAuth(p, code, productId, binding) ==
    /\ proc[p].pc = "idle"
    /\ nextUuid <= MaxUses + 1
    /\ proc' = [proc EXCEPT ![p] = [Idle EXCEPT !.pc = "acq_get", !.op = "auth",
                    !.code = code, !.productId = productId, !.binding = binding]]
    /\ UNCHANGED <<now, kv, issued, vres, nextUuid, granted, http, setter, aes>>

\* The caller starts Code.authAgain(kv, code, uuid, binding).
CallAuthAgain(p, code, uuid, binding) ==
    /\ proc[p].pc = "idle"
    /\ proc' = [proc EXCEPT ![p] = [Idle EXCEPT !.pc = "acq_get", !.op = "authAgain",
                    !.code = code, !.uuid = uuid, !.binding = binding]]
    /\ UNCHANGED <<now, kv, issued, vres, nextUuid, granted, http, setter, aes>>

\* Mutant: acquire does not look at the flag and always goes on to write it.
AcquireGet_blind(p) ==
    /\ proc[p].pc = "acq_get"
    /\ proc' = [proc EXCEPT ![p].pc = "acq_put"]
    /\ UNCHANGED <<now, kv, issued, vres, nextUuid, granted, http, setter, aes>>

\* kvLock.acquire, first half: read the held flag of the lock.
AcquireGet(p) ==
    /\ proc[p].pc = "acq_get"
    /\ proc' = [proc EXCEPT ![p].pc =
                    IF KvGet(LockKey(CodeKey(proc[p].code))).found THEN "contended"
                    ELSE "acq_put"]
    /\ UNCHANGED <<now, kv, issued, vres, nextUuid, granted, http, setter, aes>>

\* kvLock.acquire, second half: write the held flag and return true.
AcquirePut(p) ==
    /\ proc[p].pc = "acq_put"
    /\ kv' = KvPut(kv, LockKey(CodeKey(proc[p].code)), Held)
    /\ proc' = [proc EXCEPT ![p].pc = IF proc[p].op = "auth" THEN "verify" ELSE "again_used"]
    /\ UNCHANGED <<now, issued, vres, nextUuid, granted, http, setter, aes>>

\* Mutant: a refused caller releases the lock on its way out.
Contended_release(p) ==
    /\ proc[p].pc = "contended"
    /\ proc' = [proc EXCEPT ![p].pc = "done", ![p].out = AuthFail, ![p].slept = TRUE]
    /\ kv' = release(kv, CodeKey(proc[p].code))
    /\ UNCHANGED <<now, issued, vres, nextUuid, granted, http, setter, aes>>

\* if (!lock) { await sleep(randomInt(500, 700)); return [false, "", 0]; }
Contended(p) ==
    /\ proc[p].pc = "contended"
    /\ proc' = [proc EXCEPT ![p].pc = "done", ![p].out = AuthFail, ![p].slept = TRUE]
    /\ UNCHANGED <<now, kv, issued, vres, nextUuid, granted, http, setter, aes>>

\* Code.auth: const [valid, , duration, maxAmount] = await this.verify(...)
Verify(p) ==
    /\ proc[p].pc = "verify"
    /\ LET r == verify(ServerKey, proc[p].code, proc[p].productId, now)
       IN  proc' = [proc EXCEPT ![p].ver = r,
                                ![p].pc = IF r[1] THEN "get_used" ELSE "sleep_invalid"]
    /\ UNCHANGED <<now, kv, issued, vres, nextUuid, granted, http, setter, aes>>

\* Mutant: a failed verification is charged to the code as a use.
SleepInvalid_penalty(p) ==
    /\ proc[p].pc = "sleep_invalid"
    /\ proc' = [proc EXCEPT ![p].pc = "release", ![p].out = AuthFail, ![p].slept = TRUE]
    /\ kv' = KvPut(kv, CodeKey(proc[p].code), NumToString(Num(1)))
    /\ UNCHANGED <<now, issued, vres, nextUuid, granted, http, setter, aes>>

\* if (!valid) { await sleep(randomInt(100, 400)); return [false, "", 0]; }
SleepInvalid(p) ==
    /\ proc[p].pc = "sleep_invalid"
    /\ proc' = [proc EXCEPT ![p].pc = "release", ![p].out = AuthFail, ![p].slept = TRUE]
    /\ UNCHANGED <<now, kv, issued, vres, nextUuid, granted, http, setter, aes>>

\* Mutant: the limit test is off by one (used > maxAmount).
Exhausted_offByOne(used, maxAmount) == JsLt(maxAmount, used)

\* if (used >= maxAmount) return [false, "", 0] -- the test.
Exhausted(used, maxAmount) == JsGe(used, maxAmount)

\* Code.auth: read the usage counter, check the limit, prepare the new record.
GetUsed(p) ==
    /\ proc[p].pc = "get_used"
    /\ \E fails \in BOOLEAN :
        IF fails
        THEN /\ proc' = [proc EXCEPT ![p].pc = "release", ![p].threw = TRUE]
             /\ UNCHANGED nextUuid
        ELSE LET usedStr   == KvGet(CodeKey(proc[p].code))
                 used      == IF Truthy(usedStr) THEN parseInt(usedStr.v) ELSE Num(0)
                 duration  == proc[p].ver[3]
                 maxAmount == proc[p].ver[4]
             IN  IF Exhausted(used, maxAmount)
                 THEN /\ proc' = [proc EXCEPT ![p].usedStr = usedStr, ![p].pc = "release",
                                              ![p].out = AuthFail]
                      /\ UNCHANGED nextUuid
                 ELSE /\ proc' = [proc EXCEPT ![p].usedStr = usedStr, ![p].pc = "put",
                                      ![p].newUuid = <<[uuid |-> nextUuid]>>,
                                      ![p].expirationTime = JsAdd(Num(now), duration),
                                      ![p].pending = {"counter", "record"}]
                      /\ nextUuid' = nextUuid + 1
    /\ UNCHANGED <<now, kv, issued, vres, granted, http, setter, aes>>

\* The locals of Code.auth between the limit check and the two writes.
Used(p) == IF Truthy(proc[p].usedStr) THEN parseInt(proc[p].usedStr.v) ELSE Num(0)

\* Mutant: the increment is forgotten.
NewUsed_same(p) == Used(p)

\* const newUsed = used + 1
NewUsed(p) == JsAdd(Used(p), Num(1))

\* Mutant: the binding is hashed without the ledger key of the code.
CodeInfo_plainBinding(p) ==
    [uuid |-> proc[p].newUuid,
     binding |-> sha256(proc[p].binding),
     expirationTime |-> proc[p].expirationTime,
     amount |-> proc[p].ver[4]]

\* const codeInfo: ICodeInfo = { uuid, binding: bindingHash, expirationTime, amount }
CodeInfo(p) ==
    [uuid |-> proc[p].newUuid,
     binding |-> sha256(proc[p].binding \o CodeKey(proc[p].code)),
     expirationTime |-> proc[p].expirationTime,
     amount |-> proc[p].ver[4]]

\* return [true, uuid, maxAmount - newUsed]
AuthSuccess(p) == <<TRUE, proc[p].newUuid, JsSub(proc[p].ver[4], NewUsed(p))>>

\* One of the two writes of Promise.all lands: the store becomes `store`; the call
\* goes on to its return when both writes are done.
SettleWrite(p, which, store) ==
    LET left == proc[p].pending \ {which}
    IN  /\ kv' = store
        /\ proc' = [proc EXCEPT
               ![p].pending = left,
               ![p].pc = IF left = {} THEN "release" ELSE "put",
               ![p].out = IF left = {} THEN AuthSuccess(p) ELSE proc[p].out]

\* kv.put(key, newUsed.toString())
PutCounter(p) ==
    /\ "counter" \in proc[p].pending
    /\ SettleWrite(p, "counter",
                   KvPut(kv, CodeKey(proc[p].code), NumToString(NewUsed(p))))
    /\ UNCHANGED <<now, issued, vres, nextUuid, granted, http, setter, aes>>

\* kv.put(CODE_INFO_PREFIX + uuid, JSON.stringify(codeInfo), { expirationTtl: duration })
PutRecord(p) ==
    /\ "record" \in proc[p].pending
    /\ SettleWrite(p, "record",
                   KvPutTtl(kv, InfoKey(proc[p].newUuid), JSONstringify(CodeInfo(p)),
                            proc[p].ver[3].int))
    /\ UNCHANGED <<now, issued, vres, nextUuid, granted, http, setter, aes>>

\* Code.authAgain: const usedStr = await kv.get(key); a thrown error is caught.
AgainGetUsed(p) ==
    /\ proc[p].pc = "again_used"
    /\ \E fails \in BOOLEAN :
        IF fails
        THEN proc' = [proc EXCEPT ![p].pc = "release", ![p].out = AuthFail]
        ELSE LET usedStr == KvGet(CodeKey(proc[p].code))
             IN  proc' = [proc EXCEPT ![p].usedStr = usedStr,
                              ![p].pc = IF Truthy(usedStr) THEN "again_info" ELSE "sleep_again"]
    /\ UNCHANGED <<now, kv, issued, vres, nextUuid, granted, http, setter, aes>>

\* Mutant: a missing record does not stop Code.authAgain before the checks.
AgainGetInfo_lenient(p) ==
    /\ proc[p].pc = "again_info"
    /\ proc' = [proc EXCEPT ![p].ciStr = KvGet(InfoKey(proc[p].uuid)),
                             ![p].pc = "again_check"]
    /\ UNCHANGED <<now, kv, issued, vres, nextUuid, granted, http, setter, aes>>

\* Code.authAgain: const ciStr = await kv.get(CODE_INFO_PREFIX + uuid)
AgainGetInfo(p) ==
    /\ proc[p].pc = "again_info"
    /\ \E fails \in BOOLEAN :
        IF fails
        THEN proc' = [proc EXCEPT ![p].pc = "release", ![p].out = AuthFail]
        ELSE LET ciStr == KvGet(InfoKey(proc[p].uuid))
             IN  proc' = [proc EXCEPT ![p].ciStr = ciStr,
                              ![p].pc = IF Truthy(ciStr) THEN "again_check" ELSE "sleep_again"]
    /\ UNCHANGED <<now, kv, issued, vres, nextUuid, granted, http, setter, aes>>

\* The sleeps of Code.authAgain before return [false, "", 0] (no counter, no record).
SleepAgain(p) ==
    /\ proc[p].pc = "sleep_again"
    /\ proc' = [proc EXCEPT ![p].pc = "release", ![p].out = AuthFail, ![p].slept = TRUE]
    /\ UNCHANGED <<now, kv, issued, vres, nextUuid, granted, http, setter, aes>>

\* Mutant: the binding hash of the record is not compared.
RecordMismatch_noBinding(codeInfo, uuid, bindingHash, t) ==
    \/ codeInfo.uuid # uuid
    \/ JsLe(codeInfo.expirationTime, Num(t))

\* The test of Code.authAgain on the stored record: uuid, binding hash, expiry.
RecordMismatch(codeInfo, uuid, bindingHash, t) ==
    \/ codeInfo.uuid # uuid
    \/ codeInfo.binding # bindingHash
    \/ JsLe(codeInfo.expirationTime, Num(t))

\* Mutant: a record that does not match is answered with its expiry time.
AgainResult_leaky(code, uuid, binding, usedStr, ciStr, t) ==
    LET parsed == JSONparse(ciStr)
    IN  IF ~parsed.ok THEN AuthFail
        ELSE
        LET codeInfo    == parsed.value
            bindingHash == sha256(binding \o CodeKey(code))
        IN  IF RecordMismatch(codeInfo, uuid, bindingHash, t)
            THEN <<FALSE, NumToString(codeInfo.expirationTime), Num(0)>>
            ELSE <<TRUE, NumToString(codeInfo.expirationTime),
                   JsSub(codeInfo.amount, parseInt(usedStr))>>

\* Mutant: authAgain re-checks the usage limit of the code.
AgainResult_limited(code, uuid, binding, usedStr, ciStr, t) ==
    LET parsed == JSONparse(ciStr)
    IN  IF ~parsed.ok THEN AuthFail
        ELSE
        LET codeInfo    == parsed.value
            bindingHash == sha256(binding \o CodeKey(code))
        IN  IF RecordMismatch(codeInfo, uuid, bindingHash, t)
               \/ JsGe(parseInt(usedStr), codeInfo.amount)
            THEN AuthFail
            ELSE <<TRUE, NumToString(codeInfo.expirationTime),
                   JsSub(codeInfo.amount, parseInt(usedStr))>>

\* Mutant: the remaining count is the record's maxUses, whatever the counter says.
AgainResult_unused(code, uuid, binding, usedStr, ciStr, t) ==
    LET parsed == JSONparse(ciStr)
    IN  IF ~parsed.ok THEN AuthFail
        ELSE
        LET codeInfo    == parsed.value
            bindingHash == sha256(binding \o CodeKey(code))
        IN  IF RecordMismatch(codeInfo, uuid, bindingHash, t) THEN AuthFail
            ELSE <<TRUE, NumToString(codeInfo.expirationTime), codeInfo.amount>>

\* Mutant: a successful re-authentication answers with the activation uuid.
AgainResult_uuid(code, uuid, binding, usedStr, ciStr, t) ==
    LET parsed == JSONparse(ciStr)
    IN  IF ~parsed.ok THEN AuthFail
        ELSE
        LET codeInfo    == parsed.value
            bindingHash == sha256(binding \o CodeKey(code))
        IN  IF RecordMismatch(codeInfo, uuid, bindingHash, t) THEN AuthFail
            ELSE <<TRUE, codeInfo.uuid, JsSub(codeInfo.amount, parseInt(usedStr))>>

\* The result of Code.authAgain once usedStr and ciStr are read, at server time t.
AgainResult(code, uuid, binding, usedStr, ciStr, t) ==
    LET parsed == JSONparse(ciStr)
    IN  IF ~parsed.ok THEN AuthFail
        ELSE
        LET codeInfo    == parsed.value
            bindingHash == sha256(binding \o CodeKey(code))
        IN  IF RecordMismatch(codeInfo, uuid, bindingHash, t) THEN AuthFail
            ELSE <<TRUE, NumToString(codeInfo.expirationTime),
                   JsSub(codeInfo.amount, parseInt(usedStr))>>

\* Mutant: a successful re-authentication is charged to the code as a use.
AgainCheck_consumes(p) ==
    /\ proc[p].pc = "again_check"
    /\ LET r == AgainResult(proc[p].code, proc[p].uuid, proc[p].binding,
                            proc[p].usedStr.v, proc[p].ciStr.v, now)
       IN /\ proc' = [proc EXCEPT ![p].pc = "release", ![p].out = r]
          /\ kv' = IF r[1]
                   THEN KvPut(kv, CodeKey(proc[p].code),
                              NumToString(JsAdd(parseInt(proc[p].usedStr.v), Num(1))))
                   ELSE kv
    /\ UNCHANGED <<now, issued, vres, nextUuid, granted, http, setter, aes>>

\* Code.authAgain: parse the record, check uuid, binding and expiry, compute remaining.
AgainCheck(p) ==
    /\ proc[p].pc = "again_check"
    /\ proc' = [proc EXCEPT ![p].pc = "release",
                    ![p].out = AgainResult(proc[p].code, proc[p].uuid, proc[p].binding,
                                           proc[p].usedStr.v, proc[p].ciStr.v, now)]
    /\ UNCHANGED <<now, kv, issued, vres, nextUuid, granted, http, setter, aes>>

\* Number of successful Code.auth returns on the code with ledger key `key`.
GrantedOf(key) == Cardinality({g \in granted : CodeKey(g.code) = key})

\* Mutant: the lock is released at the end of the try block, not in a finally, so a
\* thrown error leaves it held.
Release_noFinally(p) ==
    /\ proc[p].pc = "release"
    /\ kv' = IF proc[p].threw THEN kv ELSE release(kv, CodeKey(proc[p].code))
    /\ proc' = [proc EXCEPT ![p].pc = "done"]
    /\ granted' =
          IF proc[p].op = "auth" /\ proc[p].out[1] /\ ~proc[p].threw
          THEN granted \cup {[uuid |-> proc[p].out[2], code |-> proc[p].code,
                              binding |-> proc[p].binding, remaining |-> proc[p].out[3]]}
          ELSE granted
    /\ UNCHANGED <<now, issued, vres, nextUuid, http, setter, aes>>

\* finally { await kvLock.release(kv, key); } and the return (or rethrow) that follows.
Release(p) ==
    /\ proc[p].pc = "release"
    /\ kv' = release(kv, CodeKey(proc[p].code))
    /\ proc' = [proc EXCEPT ![p].pc = "done"]
    /\ granted' =
          IF proc[p].op = "auth" /\ proc[p].out[1] /\ ~proc[p].threw
          THEN granted \cup {[uuid |-> proc[p].out[2], code |-> proc[p].code,
                              binding |-> proc[p].binding, remaining |-> proc[p].out[3]]}
          ELSE granted
    /\ UNCHANGED <<now, issued, vres, nextUuid, http, setter, aes>>

\* The caller has its result and is free for its next call.
Return(p) ==
    /\ proc[p].pc = "done"
    /\ proc' = [proc EXCEPT ![p] = Idle]
    /\ UNCHANGED <<now, kv, issued, vres, nextUuid, granted, http, setter, aes>>

\* A second of server time passes; entries whose TTL has elapsed leave the store.
Tick ==
    /\ now < MaxTime
    /\ now' = now + 1
    /\ kv' = Alive(kv, now + 1)
    /\ UNCHANGED <<issued, vres, proc, nextUuid, granted, http, setter, aes>>

(***************************************************************************)
(* Issuing codes, and the inputs callers may present                       *)
(***************************************************************************)

\* An issued code with the parameters and the random draws it was generated from.
Issue(aesKey, productId, expirationPeriod, activationDuration, amount, randomS, iv, t) ==
    [code |-> _generate(aesKey, productId, expirationPeriod, activationDuration,
                        amount, randomS, iv, t),
     secret |-> aesKey, productId |-> productId, expirationPeriod |-> expirationPeriod,
     activationDuration |-> activationDuration, amount |-> amount, at |-> t]

\* A code made of the encrypted prefix of `code` and the plaintext suffix s2.
Splice(code, s2) ==
    LET codeU8 == code.b64
    IN  Base64_fromBuffer(SubSeq(codeU8, 1, findNthColonFromEnd(codeU8, 3)) \o TextEncode(s2))

\* The plaintext suffix of a code.
SuffixOf(code) ==
    LET codeU8 == code.b64
    IN  TextDecode(SubSeq(codeU8, findNthColonFromEnd(codeU8, 3) + 1, Len(codeU8)))

\* The suffix `:expiry:duration:amount`.
Suffix(expiry, duration, amount) ==
    Colon \o NumToString(expiry) \o Colon \o NumToString(duration)
          \o Colon \o NumToString(amount)

\* A text that is not Base64.
Garbage == [raw |-> "!"]

\* The suffix of an issued code with its usage limit raised by one.
MoreUses(c) == Suffix(JsAdd(Num(c.at), c.expirationPeriod), c.activationDuration,
                      JsAdd(c.amount, Num(1)))

\* The codes a caller may present: the issued ones and a forgery of each.
CodeInputs ==
    {c.code : c \in issued} \cup {Splice(c.code, MoreUses(c)) : c \in issued}

\* The activation uuids a caller may present: those handed out, and one never issued.
UuidInputs == {<<[uuid |-> n]>> : n \in 0..(nextUuid - 1)}

(***************************************************************************)
(* The session layer: RSA-OAEP (as an ideal cipher) and routes/api.ts      *)
(***************************************************************************)

RSA_KEY_UPDATE_TIME == 60 * 60 * 24

CLIENT_KEY_TTL == 300

TIMESTAMP_TOLERANCE_MS == 60 * 1000

\* At most MaxClients sessions are created by key exchange.
MaxClients == 2

\* The PEM texts of the keys of an RSA key pair.
PublicPem(pair) == <<[pem |-> "PUBLIC KEY", pair |-> pair]>>

PrivatePem(pair) == <<[pem |-> "PRIVATE KEY", pair |-> pair]>>

\* RSA.importPublicKeyPEM / importPrivateKeyPEM: FALSE stands for the thrown error.
importPublicKeyPEM(pem) ==
    Len(pem) = 1 /\ DOMAIN pem[1] = {"pem", "pair"} /\ pem[1].pem = "PUBLIC KEY"

importPrivateKeyPEM(pem) ==
    Len(pem) = 1 /\ DOMAIN pem[1] = {"pem", "pair"} /\ pem[1].pem = "PRIVATE KEY"

\* RSA.rsaEncrypt: a ciphertext only the private key of the same pair opens.
rsaEncrypt(plaintext, publicKeyPem) ==
    IF ~importPublicKeyPEM(publicKeyPem) THEN [ok |-> FALSE, text |-> <<>>]
    ELSE [ok |-> TRUE, text |-> <<[rsa |-> [pair |-> publicKeyPem[1].pair, p |-> plaintext]]>>]

\* RSA.rsaDecrypt: [ok |-> FALSE] stands for the thrown error.
rsaDecrypt(encryptedB64, privateKeyPem) ==
    IF /\ importPrivateKeyPEM(privateKeyPem)
       /\ Len(encryptedB64) = 1
       /\ DOMAIN encryptedB64[1] = {"rsa"}
       /\ encryptedB64[1].rsa.pair = privateKeyPem[1].pair
    THEN [ok |-> TRUE, text |-> encryptedB64[1].rsa.p]
    ELSE [ok |-> FALSE, text |-> <<>>]

\* The errors of class ApiError; NoError stands for "nothing thrown".
NoError == [message |-> <<>>, statusCode |-> 0, code |-> "NONE"]

sessionExpired ==
    [message |-> <<"Session expired. Please refresh.">>, statusCode |-> 401,
     code |-> "SESSION_EXPIRED"]

invalidFormat(field) ==
    [message |-> <<"Invalid ", field, " format">>, statusCode |-> 400,
     code |-> "INVALID_FORMAT"]

missingField(field) ==
    [message |-> <<"Missing required field: ", field>>, statusCode |-> 400,
     code |-> "MISSING_FIELD"]

serverError(message) ==
    [message |-> <<message>>, statusCode |-> 500, code |-> "SERVER_ERROR"]

timestampExpired ==
    [message |-> <<"Request timestamp expired">>, statusCode |-> 400,
     code |-> "TIMESTAMP_EXPIRED"]

\* The JSON bodies of the responses.
ok(data) == [status |-> "ok", data |-> data]

fail(error) == [status |-> "error", message |-> error.message, code |-> error.statusCode]

RsaPubKey == <<[name |-> "rsa_pub_key_pem"]>>

RsaPriKey == <<[name |-> "rsa_pri_key_pem"]>>

\* The store key `S:${clientUuid}` of a session.
SessionKey(clientUuid) == Str(<<"S", ":">>) \o clientUuid

\* ensureRSAKeys: without a stored public key, a new key pair is stored for the
\* rotation period.
ensureRSAKeys(store) ==
    IF Truthy(StoreGet(store, RsaPubKey)) THEN store
    ELSE KvPutTtl(KvPutTtl(store, RsaPubKey, PublicPem([server |-> now]), RSA_KEY_UPDATE_TIME),
                  RsaPriKey, PrivatePem([server |-> now]), RSA_KEY_UPDATE_TIME)

\* Mutant: a missing session is not noticed.
getSessionContext_noSession(store, clientUuid) ==
    LET serverPriPem == StoreGet(store, RsaPriKey)
        clientPubPem == StoreGet(store, SessionKey(clientUuid))
    IN  IF ~Truthy(serverPriPem)
        THEN [err |-> serverError("Server private key not found"),
              serverPriPem |-> <<>>, clientPubPem |-> <<>>]
        ELSE [err |-> NoError, serverPriPem |-> serverPriPem.v,
              clientPubPem |-> clientPubPem.v]

\* getSessionContext: err is the ApiError thrown, or NoError.
getSessionContext(store, clientUuid) ==
    LET serverPriPem == StoreGet(store, RsaPriKey)
        clientPubPem == StoreGet(store, SessionKey(clientUuid))
    IN  IF ~Truthy(serverPriPem)
        THEN [err |-> serverError("Server private key not found"),
              serverPriPem |-> <<>>, clientPubPem |-> <<>>]
        ELSE IF ~Truthy(clientPubPem)
        THEN [err |-> sessionExpired, serverPriPem |-> <<>>, clientPubPem |-> <<>>]
        ELSE [err |-> NoError, serverPriPem |-> serverPriPem.v,
              clientPubPem |-> clientPubPem.v]

\* decrypt / encrypt: the RSA wrappers of the routes.
decrypt(ciphertext, privateKey) ==
    LET r == rsaDecrypt(ciphertext, privateKey)
    IN  IF r.ok THEN [err |-> NoError, text |-> r.text]
        ELSE [err |-> invalidFormat("encrypted data"), text |-> <<>>]

encrypt(plaintext, publicKey) ==
    LET r == rsaEncrypt(plaintext, publicKey)
    IN  IF r.ok THEN [err |-> NoError, text |-> r.text]
        ELSE [err |-> serverError("Response encryption failed"), text |-> <<>>]

\* data.lastIndexOf(ch): 0-based, -1 when ch does not occur.
lastIndexOf(data, ch) ==
    LET at == {i \in 1..Len(data) : data[i] = ch}
    IN  IF at = {} THEN 0 - 1 ELSE (CHOOSE i \in at : \A j \in at : j <= i) - 1

\* parseTimestampedData, for data of the format value:timestamp.
parseTimestampedData(data) ==
    LET lastColonIdx == lastIndexOf(data, Ch(":"))
    IN  IF lastColonIdx = 0 - 1
        THEN [err |-> invalidFormat("data"), value |-> <<>>, timestamp |-> NaN]
        ELSE
        LET value     == SubSeq(data, 1, lastColonIdx)
            timestamp == parseInt(SubSeq(data, lastColonIdx + 2, Len(data)))
        IN  IF timestamp = NaN
            THEN [err |-> invalidFormat("timestamp"), value |-> <<>>, timestamp |-> NaN]
            ELSE [err |-> NoError, value |-> value, timestamp |-> timestamp]

\* Date.now(): the wall clock in milliseconds, counted from the origin of server time.
DateNow == now * 1000

\* Mutant: a drift equal to the tolerance is rejected too.
validateTimestamp_strict(timestamp) ==
    LET drift == IF DateNow >= timestamp.int THEN DateNow - timestamp.int
                 ELSE timestamp.int - DateNow
    IN  IF drift >= TIMESTAMP_TOLERANCE_MS THEN timestampExpired ELSE NoError

\* validateTimestamp: the ApiError thrown, or NoError.
validateTimestamp(timestamp) ==
    LET drift == IF DateNow >= timestamp.int THEN DateNow - timestamp.int
                 ELSE timestamp.int - DateNow
    IN  IF drift > TIMESTAMP_TOLERANCE_MS THEN timestampExpired ELSE NoError

\* `${success}` of a boolean.
BoolToString(b) ==
    IF b THEN Str(<<"t", "r", "u", "e">>) ELSE Str(<<"f", "a", "l", "s", "e">>)

buildAuthResult(success, uuid, remaining) ==
    BoolToString(success) \o Colon \o uuid \o Colon \o NumToString(remaining)

\* validateRequiredFields: the ApiError thrown for the first field that is falsy
\* (absent or empty), or NoError.
validateRequiredFields(body, requiredFields) ==
    LET missing == {i \in 1..Len(requiredFields) : body[requiredFields[i]] = <<>>}
    IN  IF missing = {} THEN NoError
        ELSE missingField(requiredFields[CHOOSE i \in missing : \A j \in missing : i <= j])

RECURSIVE trimStart(_)
trimStart(s) == IF s # <<>> /\ Head(s) = Ch(" ") THEN trimStart(Tail(s)) ELSE s

RECURSIVE trimEnd(_)
trimEnd(s) ==
    IF s # <<>> /\ s[Len(s)] = Ch(" ") THEN trimEnd(SubSeq(s, 1, Len(s) - 1)) ELSE s

\* String.prototype.trim, for the whitespace " ".
trim(s) == trimEnd(trimStart(s))

\* A string handed to Code.auth / Code.authAgain as the code: a Base64 text is one
\* value, and inside a longer string it is one element.
AsCode(text) ==
    IF Len(text) = 1 /\ DOMAIN text[1] = {"b64"} THEN text[1] ELSE [raw |-> text]

\* What a handler does up to its call of Code.auth / Code.authAgain: it throws err,
\* or calls with these arguments.
Thrown(e) ==
    [err |-> e, code |-> NoCode, productId |-> <<>>, uuid |-> <<>>, binding |-> <<>>,
     clientPubPem |-> <<>>]

Calls(code, productId, uuid, binding, clientPubPem) ==
    [err |-> NoError, code |-> code, productId |-> productId, uuid |-> uuid,
     binding |-> binding, clientPubPem |-> clientPubPem]

\* POST /auth/reg/code up to the call of Code.auth.
AuthRegCode(store, body) ==
    LET missing == validateRequiredFields(body, <<"client_uuid", "data_c", "data_i", "data_b">>)
    IN  IF missing # NoError THEN Thrown(missing)
        ELSE
        LET ctx == getSessionContext(store, body.client_uuid)
        IN  IF ctx.err # NoError THEN Thrown(ctx.err)
            ELSE
            LET dataC     == decrypt(body.data_c, ctx.serverPriPem)
                productId == decrypt(body.data_i, ctx.serverPriPem)
                binding   == decrypt(body.data_b, ctx.serverPriPem)
            IN  IF dataC.err # NoError THEN Thrown(dataC.err)
                ELSE IF productId.err # NoError THEN Thrown(productId.err)
                ELSE IF binding.err # NoError THEN Thrown(binding.err)
                ELSE
                LET parsed == parseTimestampedData(dataC.text)
                IN  IF parsed.err # NoError THEN Thrown(parsed.err)
                    ELSE IF validateTimestamp(parsed.timestamp) # NoError
                    THEN Thrown(validateTimestamp(parsed.timestamp))
                    ELSE Calls(AsCode(parsed.value), productId.text, <<>>, binding.text,
                               ctx.clientPubPem)

\* POST /auth/again/reg/code up to the call of Code.authAgain.
AuthAgain(store, body) ==
    LET missing == validateRequiredFields(body, <<"client_uuid", "data_c", "data_u">>)
    IN  IF missing # NoError THEN Thrown(missing)
        ELSE
        LET ctx == getSessionContext(store, body.client_uuid)
        IN  IF ctx.err # NoError THEN Thrown(ctx.err)
            ELSE
            LET code           == decrypt(body.data_c, ctx.serverPriPem)
                activationUuid == decrypt(body.data_u, ctx.serverPriPem)
                binding        == IF body.data_b # <<>>
                                  THEN decrypt(body.data_b, ctx.serverPriPem)
                                  ELSE [err |-> NoError, text |-> <<>>]
            IN  IF code.err # NoError THEN Thrown(code.err)
                ELSE IF activationUuid.err # NoError THEN Thrown(activationUuid.err)
                ELSE IF binding.err # NoError THEN Thrown(binding.err)
                ELSE Calls(AsCode(code.text), <<>>, activationUuid.text, binding.text,
                           ctx.clientPubPem)

NoReq == [endpoint |-> "none"]

NoResp == [status |-> "none"]

HttpIdle ==
    [pc |-> "idle", req |-> NoReq, clientPubPem |-> <<>>, resp |-> NoResp, sessions |-> 0]

\* The worker that serves the requests runs Code.auth / Code.authAgain as caller "p1".
Worker == "p1"

\* The public keys clients submit: a key, blanks, and a text that is no key.
ClientPems == {PublicPem([client |-> 1]), Str(<<" ">>), Str(<<"X">>)}

\* The client identifiers requests carry: those key exchange can hand out, and one
\* it never does.
ClientIds == {<<[client |-> n]>> : n \in 1..(MaxClients + 1)}

\* The server public key a client encrypts with.
ServerPub(store) == StoreGet(store, RsaPubKey).v

\* data_c of an activation request for code c: absent, not a ciphertext, or the
\* encryption of `code:timestamp` with a timestamp that is current, at the edge of
\* the tolerance, or beyond it (ahead of the server clock, or behind it).
DataC(store, c) ==
    {<<>>, Str(<<"X">>)} \cup
    {rsaEncrypt(<<c.code>> \o Colon \o NumToString(Num(DateNow + skew)),
                ServerPub(store)).text :
        skew \in {s \in {0, TIMESTAMP_TOLERANCE_MS, TIMESTAMP_TOLERANCE_MS + 1,
                         0 - (TIMESTAMP_TOLERANCE_MS + 1)} : DateNow + s >= 0}}

AuthBodies(store) ==
    {[client_uuid |-> id, data_c |-> dc,
      data_i |-> rsaEncrypt(c.productId, ServerPub(store)).text,
      data_b |-> rsaEncrypt(Str(<<"A">>), ServerPub(store)).text] :
        id \in ClientIds, c \in issued, dc \in UNION {DataC(store, x) : x \in issued}}

AgainBodies(store) ==
    {[client_uuid |-> id, data_c |-> dc,
      data_u |-> rsaEncrypt(uuid, ServerPub(store)).text,
      data_b |-> db] :
        id \in ClientIds, uuid \in UuidInputs,
        dc \in {<<>>} \cup {rsaEncrypt(<<c.code>>, ServerPub(store)).text : c \in issued},
        db \in {<<>>, rsaEncrypt(Str(<<"A">>), ServerPub(store)).text}}

\* The worker answers without calling the ledger, or leaves the handler waiting for
\* Code.auth / Code.authAgain.
Handle(endpoint, body, o, op) ==
    IF o.err # NoError
    THEN /\ http' = [http EXCEPT !.pc = "replied", !.resp = fail(o.err),
                                 !.req = [endpoint |-> endpoint, body |-> body]]
         /\ proc' = proc
    ELSE /\ http' = [http EXCEPT !.pc = "called", !.clientPubPem = o.clientPubPem,
                                 !.req = [endpoint |-> endpoint, body |-> body]]
         /\ proc' = [proc EXCEPT ![Worker] =
                        [Idle EXCEPT !.pc = "acq_get", !.op = op, !.code = o.code,
                                     !.productId = o.productId, !.uuid = o.uuid,
                                     !.binding = o.binding]]

\* [POST] /pub/key/exc, behind the middleware.
KeyExchange ==
    /\ http.pc = "idle"
    /\ http.sessions < MaxClients
    /\ \E pem \in ClientPems :
          LET store           == ensureRSAKeys(kv)
              clientPubKeyPem == trim(pem)
              serverPubKeyPem == StoreGet(store, RsaPubKey)
              clientUuid      == <<[client |-> http.sessions + 1]>>
              req             == [endpoint |-> "/pub/key/exc", body |-> [client_pub_key_pem |-> pem]]
          IN  IF clientPubKeyPem = <<>>
              THEN /\ kv' = store
                   /\ http' = [http EXCEPT !.pc = "replied", !.req = req,
                                 !.resp = fail(missingField("client_pub_key_pem"))]
              ELSE IF ~importPublicKeyPEM(clientPubKeyPem)
              THEN /\ kv' = store
                   /\ http' = [http EXCEPT !.pc = "replied", !.req = req,
                                 !.resp = fail(invalidFormat("client public key"))]
              ELSE IF ~Truthy(serverPubKeyPem)
              THEN /\ kv' = store
                   /\ http' = [http EXCEPT !.pc = "replied", !.req = req,
                                 !.resp = fail(serverError("Server public key not available"))]
              ELSE /\ kv' = KvPutTtl(store, SessionKey(clientUuid), clientPubKeyPem,
                                     CLIENT_KEY_TTL)
                   /\ http' = [http EXCEPT !.pc = "replied", !.req = req,
                                 !.sessions = http.sessions + 1,
                                 !.resp = [status |-> "ok", client_uuid |-> clientUuid,
                                           server_pub_key_pem |-> serverPubKeyPem.v]]
    /\ UNCHANGED <<now, issued, vres, proc, nextUuid, granted, setter, aes>>

\* [POST] /auth/reg/code, behind the middleware, up to the call of Code.auth.
PostAuthRegCode ==
    /\ http.pc = "idle"
    /\ proc[Worker].pc = "idle"
    /\ nextUuid <= MaxUses + 1
    /\ \E body \in AuthBodies(ensureRSAKeys(kv)) :
          /\ kv' = ensureRSAKeys(kv)
          /\ Handle("/auth/reg/code", body, AuthRegCode(ensureRSAKeys(kv), body), "auth")
    /\ UNCHANGED <<now, issued, vres, nextUuid, granted, setter, aes>>

\* [POST] /auth/again/reg/code, behind the middleware, up to the call of Code.authAgain.
PostAuthAgain ==
    /\ http.pc = "idle"
    /\ proc[Worker].pc = "idle"
    /\ \E body \in AgainBodies(ensureRSAKeys(kv)) :
          /\ kv' = ensureRSAKeys(kv)
          /\ Handle("/auth/again/reg/code", body, AuthAgain(ensureRSAKeys(kv), body),
                    "authAgain")
    /\ UNCHANGED <<now, issued, vres, nextUuid, granted, setter, aes>>

\* Mutant: a session is good for one call; the handler deletes it with its answer.
Reply_consumesSession ==
    /\ http.pc = "called"
    /\ proc[Worker].pc = "done"
    /\ LET out       == IF proc[Worker].threw THEN AuthFail ELSE proc[Worker].out
           resultStr == buildAuthResult(out[1], out[2], out[3])
           encrypted == encrypt(resultStr, http.clientPubPem)
       IN  http' = [http EXCEPT !.pc = "replied",
                       !.resp = IF encrypted.err # NoError THEN fail(encrypted.err)
                                ELSE ok(encrypted.text)]
    /\ proc' = [proc EXCEPT ![Worker] = Idle]
    /\ kv' = KvDelete(kv, SessionKey(http.req.body.client_uuid))
    /\ UNCHANGED <<now, issued, vres, nextUuid, granted, setter, aes>>

\* The rest of both handlers: Code.auth / Code.authAgain has returned (an error it
\* threw is logged and leaves success = false, uuid = "", remaining = 0); the result
\* is encrypted for the client of the session.
Reply ==
    /\ http.pc = "called"
    /\ proc[Worker].pc = "done"
    /\ LET out       == IF proc[Worker].threw THEN AuthFail ELSE proc[Worker].out
           resultStr == buildAuthResult(out[1], out[2], out[3])
           encrypted == encrypt(resultStr, http.clientPubPem)
       IN  http' = [http EXCEPT !.pc = "replied",
                       !.resp = IF encrypted.err # NoError THEN fail(encrypted.err)
                                ELSE ok(encrypted.text)]
    /\ proc' = [proc EXCEPT ![Worker] = Idle]
    /\ UNCHANGED <<now, kv, issued, vres, nextUuid, granted, setter, aes>>

\* The response is sent; the worker takes the next request.
Sent ==
    /\ http.pc = "replied"
    /\ http' = [HttpIdle EXCEPT !.sessions = http.sessions]
    /\ UNCHANGED <<now, kv, issued, vres, proc, nextUuid, granted, setter, aes>>

\* CLIENT_KEY_TTL seconds of server time pass at once.
Lapse ==
    /\ now <= MaxTime
    /\ now' = now + CLIENT_KEY_TTL
    /\ kv' = Alive(kv, now + CLIENT_KEY_TTL)
    /\ UNCHANGED <<issued, vres, proc, nextUuid, granted, http, setter, aes>>

(***************************************************************************)
(* The derived-key cache of class AES                                      *)
(***************************************************************************)

\* static cachedAesKeyBuffer = null; static cachedServerKey = null;
NoCache == [cachedAesKeyBuffer |-> [null |-> TRUE], cachedServerKey |-> [null |-> TRUE]]

KeyIdle == [pc |-> "idle", serverKey |-> [null |-> TRUE], out |-> [null |-> TRUE]]

AesIdle == [cache |-> NoCache, call |-> [p \in Procs |-> KeyIdle]]

\* Mutant: the cache is used whenever it is filled, whatever secret filled it.
CacheHit_anySecret(cache, serverKey) == cache.cachedAesKeyBuffer # [null |-> TRUE]

\* if (this.cachedAesKeyBuffer && this.cachedServerKey === serverKey)
CacheHit(cache, serverKey) ==
    /\ cache.cachedAesKeyBuffer # [null |-> TRUE]
    /\ cache.cachedServerKey = [s |-> serverKey]

\* AES.getAesKey(serverKey) up to its first await: a cache hit returns the cached
\* buffer, a miss starts crypto.subtle.importKey.
CallGetAesKey(p, serverKey) ==
    /\ aes.call[p].pc = "idle"
    /\ aes' = [aes EXCEPT !.call[p] =
                 IF CacheHit(aes.cache, serverKey)
                 THEN [pc |-> "done", serverKey |-> [s |-> serverKey],
                       out |-> aes.cache.cachedAesKeyBuffer]
                 ELSE [pc |-> "importKey", serverKey |-> [s |-> serverKey],
                       out |-> [null |-> TRUE]]]
    /\ UNCHANGED <<now, kv, issued, vres, proc, nextUuid, granted, http, setter>>

\* await crypto.subtle.importKey(..) has settled; deriveKey starts.
ImportKey(p) ==
    /\ aes.call[p].pc = "importKey"
    /\ aes' = [aes EXCEPT !.call[p].pc = "deriveKey"]
    /\ UNCHANGED <<now, kv, issued, vres, proc, nextUuid, granted, http, setter>>

\* await crypto.subtle.deriveKey(..) has settled; exportKey starts.
DeriveKey(p) ==
    /\ aes.call[p].pc = "deriveKey"
    /\ aes' = [aes EXCEPT !.call[p].pc = "exportKey"]
    /\ UNCHANGED <<now, kv, issued, vres, proc, nextUuid, granted, http, setter>>

\* await crypto.subtle.exportKey(..) has settled: in one turn the buffer and the
\* secret are cached and this.cachedAesKeyBuffer is returned.
ExportKey(p) ==
    /\ aes.call[p].pc = "exportKey"
    /\ LET cache == [cachedAesKeyBuffer |-> getAesKey(aes.call[p].serverKey.s),
                     cachedServerKey |-> aes.call[p].serverKey]
       IN  aes' = [aes EXCEPT !.cache = cache,
                              !.call[p].pc = "done",
                              !.call[p].out = cache.cachedAesKeyBuffer]
    /\ UNCHANGED <<now, kv, issued, vres, proc, nextUuid, granted, http, setter>>

\* AES.clearCache()
ClearCache ==
    /\ aes.cache # NoCache
    /\ aes' = [aes EXCEPT !.cache = NoCache]
    /\ UNCHANGED <<now, kv, issued, vres, proc, nextUuid, granted, http, setter>>

\* The caller has its key and is free for the next call.
ReturnKey(p) ==
    /\ aes.call[p].pc = "done"
    /\ aes' = [aes EXCEPT !.call[p] = KeyIdle]
    /\ UNCHANGED <<now, kv, issued, vres, proc, nextUuid, granted, http, setter>>

(***************************************************************************)
(* The product registry: Product.set under kvLock.waitAndAcquire           *)
(***************************************************************************)

PRODUCT_KEY == <<[name |-> "product"]>>

SetFail == <<FALSE, <<>>>>

SetIdle ==
    [pc |-> "idle", name |-> <<>>, products |-> <<>>, id |-> <<>>, out |-> SetFail,
     threw |-> FALSE, waited |-> FALSE]

\* The names the admin submits: two names, one of them also with blanks around it,
\* and a blank name.
Names == {Str(<<"A">>), Str(<<" ", "A", " ">>), Str(<<"B">>), Str(<<" ">>)}

\* Product.gets: the stored list, [] when there is none or it is no JSON.
gets(store) ==
    LET productJson == StoreGet(store, PRODUCT_KEY)
    IN  IF ~Truthy(productJson) THEN << >>
        ELSE IF JSONparse(productJson.v).ok THEN JSONparse(productJson.v).value
        ELSE << >>

\* Product.get(kv, name): the id of the first stored product with the trimmed name.
get(store, name) ==
    LET products == gets(store)
        hits     == {i \in 1..Len(products) : products[i].name = trim(name)}
    IN  IF trim(name) = << >> \/ hits = {} THEN SetFail
        ELSE <<TRUE, products[CHOOSE i \in hits : \A j \in hits : i <= j].id>>

\* Product.set(kv, name): name = name.trim(); if (!name) return [false, ""].
CallSet(p, name) ==
    /\ setter[p].pc = "idle"
    /\ setter' = [setter EXCEPT ![p] =
                    IF trim(name) = << >> THEN [SetIdle EXCEPT !.pc = "done"]
                    ELSE [SetIdle EXCEPT !.pc = "wait_get", !.name = trim(name)]]
    /\ UNCHANGED <<now, kv, issued, vres, proc, nextUuid, granted, http, aes>>

\* Mutant: waitAndAcquire gives up after a refused attempt and returns.
WaitGet_giveUp(p) ==
    /\ setter[p].pc = "wait_get"
    /\ setter' = [setter EXCEPT ![p].pc =
                    IF KvGet(LockKey(setter[p].name)).found THEN "gets" ELSE "wait_put"]
    /\ UNCHANGED <<now, kv, issued, vres, proc, nextUuid, granted, http, aes>>

\* kvLock.waitAndAcquire, an acquire attempt, first half: read the held flag.
WaitGet(p) ==
    /\ setter[p].pc = "wait_get"
    /\ setter' = [setter EXCEPT ![p].pc =
                    IF KvGet(LockKey(setter[p].name)).found THEN "wait_sleep" ELSE "wait_put"]
    /\ UNCHANGED <<now, kv, issued, vres, proc, nextUuid, granted, http, aes>>

\* kvLock.waitAndAcquire: the attempt returned false; sleep(retryDelayMs), then retry.
WaitSleep(p) ==
    /\ setter[p].pc = "wait_sleep"
    /\ setter' = [setter EXCEPT ![p].pc = "wait_get", ![p].waited = TRUE]
    /\ UNCHANGED <<now, kv, issued, vres, proc, nextUuid, granted, http, aes>>

\* kvLock.waitAndAcquire, the attempt's second half: write the flag; acquire returns
\* true and waitAndAcquire returns.
WaitPut(p) ==
    /\ setter[p].pc = "wait_put"
    /\ kv' = KvPut(kv, LockKey(setter[p].name), Held)
    /\ setter' = [setter EXCEPT ![p].pc = "gets"]
    /\ UNCHANGED <<now, issued, vres, proc, nextUuid, granted, http, aes>>

\* Mutant: the name is pushed without looking for it in the list.
Pushed_unchecked(products, name, id) ==
    [ok |-> TRUE, list |-> Append(products, [name |-> name, id |-> id])]

\* if (products.some(p => p.name === name)) return [false, ""];
\* products.push({ name, id })
Pushed(products, name, id) ==
    IF \E i \in 1..Len(products) : products[i].name = name
    THEN [ok |-> FALSE, list |-> products]
    ELSE [ok |-> TRUE, list |-> Append(products, [name |-> name, id |-> id])]

\* Product.set: const products = await this.gets(kv); the name check; the new id.
Gets(p) ==
    /\ setter[p].pc = "gets"
    /\ \E fails \in BOOLEAN, id \in randomString(PRODUCT_ID_LENGTH) :
        IF fails
        THEN setter' = [setter EXCEPT ![p].pc = "release", ![p].threw = TRUE]
        ELSE LET r == Pushed(gets(kv), setter[p].name, id)
             IN  setter' = [setter EXCEPT ![p].products = r.list,
                                ![p].id = IF r.ok THEN id ELSE << >>,
                                ![p].pc = IF r.ok THEN "put" ELSE "release"]
    /\ UNCHANGED <<now, kv, issued, vres, proc, nextUuid, granted, http, aes>>

\* await kv.put(this.PRODUCT_KEY, JSON.stringify(products)); return [true, id];
PutProducts(p) ==
    /\ setter[p].pc = "put"
    /\ kv' = KvPut(kv, PRODUCT_KEY, JSONstringify(setter[p].products))
    /\ setter' = [setter EXCEPT ![p].pc = "release", ![p].out = <<TRUE, setter[p].id>>]
    /\ UNCHANGED <<now, issued, vres, proc, nextUuid, granted, http, aes>>

\* Mutant: the finally block leaves the held flag in the store.
ReleaseSet_keepsFlag(p) ==
    /\ setter[p].pc = "release"
    /\ setter' = [setter EXCEPT ![p].pc = "done"]
    /\ UNCHANGED <<now, kv, issued, vres, proc, nextUuid, granted, http, aes>>

\* finally { await kvLock.release(kv, name); }
ReleaseSet(p) ==
    /\ setter[p].pc = "release"
    /\ kv' = release(kv, setter[p].name)
    /\ setter' = [setter EXCEPT ![p].pc = "done"]
    /\ UNCHANGED <<now, issued, vres, proc, nextUuid, granted, http, aes>>

\* The admin has the result and is free for the next call.
ReturnSet(p) ==
    /\ setter[p].pc = "done"
    /\ setter' = [setter EXCEPT ![p] = SetIdle]
    /\ UNCHANGED <<now, kv, issued, vres, proc, nextUuid, granted, http, aes>>

(***************************************************************************)
(* Specifications                                                          *)
(***************************************************************************)

\* The parameters of the code the ledger specifications start with.
LedgerCodes ==
    {Issue(ServerKey, Repeat("A", PRODUCT_ID_LENGTH), Num(period), Num(duration), Num(amount),
           Repeat("A", RANDOM_S_LENGTH), [i \in 1..IV_LENGTH |-> Byte(0)], 0) :
        period \in {0 - 1, 1}, duration \in {1}, amount \in 1..MaxUses}

Init ==
    /\ now = 0
    /\ kv = << >>
    /\ \E c \in LedgerCodes : issued = {c}
    /\ vres = << >>
    /\ proc = [p \in Procs |-> Idle]
    /\ nextUuid = 1
    /\ granted = {}
    /\ http = HttpIdle
    /\ setter = [p \in Procs |-> SetIdle]
    /\ aes = AesIdle

\* The steps of caller p inside Code.auth and Code.authAgain, once called.
InCall(p) ==
    \/ AcquireGet(p)
    \/ AcquirePut(p)
    \/ Verify(p)
    \/ SleepInvalid(p)
    \/ GetUsed(p)
    \/ PutCounter(p)
    \/ PutRecord(p)
    \/ AgainGetUsed(p)
    \/ AgainGetInfo(p)
    \/ SleepAgain(p)
    \/ AgainCheck(p)
    \/ Release(p)

\* The steps of a direct caller p of Code.auth and Code.authAgain.
Inside(p) == InCall(p) \/ Return(p)

\* Calls that never overlap: one caller makes all the calls, one after another, with
\* any code, product id, binding and uuid, while server time passes.
NextSeq ==
    \/ Tick
    \/ \E code \in CodeInputs, productId \in ProductIds, binding \in Bindings :
          CallAuth("p1", code, productId, binding)
    \/ \E code \in CodeInputs, uuid \in UuidInputs, binding \in Bindings :
          CallAuthAgain("p1", code, uuid, binding)
    \/ Inside("p1")

SpecSeq == Init /\ [][NextSeq]_vars

\* The uuids presented to Code.authAgain by concurrent callers: the first one handed
\* out (if any) and one never issued.
RaceUuids == {u \in UuidInputs : u[1].uuid <= 1}

\* Concurrent callers on the issued code and its forgery, within one second of server
\* time: every step of every caller interleaves with the others'.
Next ==
    \E p \in Procs :
        \/ \E code \in CodeInputs, productId \in ProductIds :
              CallAuth(p, code, productId, Str(<<"A">>))
        \/ \E c \in issued, uuid \in RaceUuids, binding \in Bindings :
              CallAuthAgain(p, c.code, uuid, binding)
        \/ Contended(p)
        \/ Inside(p)

Spec == Init /\ [][Next]_vars

\* The server secrets Code.verify is called with: the one the codes are generated
\* with, and another.
Secrets == {ServerKey, "other-key"}

\* activationDuration as the generation endpoints accept it: any number > 0.
Durations == {Num(1), Frac(1, 5)}

\* Code._generate through Product.gentId: the first code is generated.
Generate ==
    /\ issued = {}
    /\ vres = << >>
    /\ \E productId \in ProductIds, period \in 1..2, duration \in Durations,
          amount \in 1..MaxUses, iv \in RandomIvs :
          issued' = {Issue(ServerKey, productId, Num(period), duration, Num(amount),
                           Repeat("A", RANDOM_S_LENGTH), iv, now)}
    /\ UNCHANGED <<now, kv, vres, proc, nextUuid, granted, http, setter, aes>>

\* Code._generate again, for the same product and with the same secret.
GenerateOther ==
    /\ \E c \in issued :
          /\ issued = {c}
          /\ vres = << >>
          /\ \E duration \in Durations, amount \in 1..MaxUses :
                issued' = {c, Issue(c.secret, c.productId, Num(1), duration, Num(amount),
                                    Repeat("B", RANDOM_S_LENGTH),
                                    [i \in 1..IV_LENGTH |-> Byte(COLON_CHAR_CODE)], now)}
    /\ UNCHANGED <<now, kv, vres, proc, nextUuid, granted, http, setter, aes>>

\* A direct call Code.verify(secret, code, productId) on an issued code.
VerifyCode ==
    /\ vres = << >>
    /\ \E c \in issued, secret \in Secrets, productId \in ProductIds :
          vres' = <<[c |-> c, s2 |-> SuffixOf(c.code), secret |-> secret,
                     productId |-> productId, at |-> now,
                     out |-> verify(secret, c.code, productId, now)]>>
    /\ UNCHANGED <<now, kv, issued, proc, nextUuid, granted, http, setter, aes>>

\* The suffixes put behind the encrypted prefix of c: the suffix of every issued code,
\* and the suffix of c with a later expiry, a longer duration or more uses.
Suffixes(c) ==
    {SuffixOf(o.code) : o \in issued}
        \cup {MoreUses(c),
              Suffix(Num(c.at + c.expirationPeriod.int + 1), c.activationDuration, c.amount),
              Suffix(Num(c.at + c.expirationPeriod.int), Num(9), c.amount)}

\* Code.verify on the encrypted prefix of an issued code followed by a suffix s2.
VerifySpliced ==
    /\ vres = << >>
    /\ \E c \in issued : \E s2 \in Suffixes(c) :
          vres' = <<[c |-> c, s2 |-> s2, secret |-> c.secret,
                     productId |-> c.productId, at |-> now,
                     out |-> verify(c.secret, Splice(c.code, s2), c.productId, now)]>>
    /\ UNCHANGED <<now, kv, issued, proc, nextUuid, granted, http, setter, aes>>

\* The caller of Code.verify has taken the result.
VerifyReturn ==
    /\ vres # << >>
    /\ vres' = << >>
    /\ UNCHANGED <<now, kv, issued, proc, nextUuid, granted, http, setter, aes>>

InitCodec ==
    /\ now = 0
    /\ kv = << >>
    /\ issued = {}
    /\ vres = << >>
    /\ proc = [p \in Procs |-> Idle]
    /\ nextUuid = 1
    /\ granted = {}
    /\ http = HttpIdle
    /\ setter = [p \in Procs |-> SetIdle]
    /\ aes = AesIdle

NextCodec == Generate \/ GenerateOther \/ Tick \/ VerifyCode \/ VerifySpliced \/ VerifyReturn

\* Generation and direct verification of codes as time passes.
SpecCodec == InitCodec /\ [][NextCodec]_vars

\* Requests served one at a time by the worker, while server time passes and
\* sessions expire.
NextApi ==
    \/ Tick
    \/ Lapse
    \/ KeyExchange
    \/ PostAuthRegCode
    \/ PostAuthAgain
    \/ InCall(Worker)
    \/ Reply
    \/ Sent

SpecApi == Init /\ [][NextApi]_vars

(***************************************************************************)
(* Properties                                                              *)
(***************************************************************************)

\* The absolute expiry written into an issued code.
Expiry(c) == JsAdd(Num(c.at), c.expirationPeriod)

IsLockKey(k) == Len(k) = 1 /\ DOMAIN k[1] = {"lock"}

\* The caller of the sequential specification.
Caller == proc["p1"]

\* The caller has just got the result of Code.auth on issued code c with c's own
\* product id, the store did not throw, and c has not expired.
ValidAuthDone(c) ==
    /\ Caller.pc = "done"
    /\ Caller.op = "auth"
    /\ Caller.code = c.code
    /\ Caller.productId = c.productId
    /\ ~Caller.threw
    /\ JsGe(Expiry(c), Num(now))

\* C1: when Code.auth calls on a valid, unexpired code with maxUses = N run one after
\* another, a call succeeds exactly when fewer than N calls succeeded before it, the
\* k-th success reports remaining N - k with a new uuid, and every call after the
\* N-th success returns (false, "", 0).
C1_UsageLimit ==
    \A c \in issued :
        ValidAuthDone(c) =>
            LET N == c.amount.int
                k == GrantedOf(CodeKey(c.code))
            IN  /\ Caller.out[1] => /\ k \in 1..N
                                 /\ Caller.out[3] = Num(N - k)
                                 /\ Caller.out[2] # <<>>
                /\ ~Caller.out[1] => /\ k = N
                                  /\ Caller.out = AuthFail

\* The (N+1)-th call on a code with N = MaxUses has just failed after N successes.
C1_Witness ==
    \E c \in issued :
        /\ ValidAuthDone(c)
        /\ c.amount = Num(MaxUses)
        /\ GrantedOf(CodeKey(c.code)) = MaxUses
        /\ Caller.out = AuthFail

\* C4: when calls do not overlap, no lock flag is present once a call of Code.auth or
\* Code.authAgain has returned, whatever its exit path (verification failure,
\* exhausted uses, missing counter or record, mismatch, thrown store error, success).
C4_LockReleased ==
    Caller.pc \in {"done", "idle"} => \A k \in DOMAIN kv : ~IsLockKey(k)

\* Code.auth has just ended by a thrown store error, after it acquired the lock.
C4_Witness ==
    /\ Caller.pc = "done"
    /\ Caller.op = "auth"
    /\ Caller.threw
    /\ Caller.ver[1]

\* C5: Code.authAgain with the code and uuid of an earlier successful Code.auth but
\* another binding returns (false, "", 0).
C5_BindingEnforced ==
    \A g \in granted :
        (/\ Caller.pc = "done"
         /\ Caller.op = "authAgain"
         /\ Caller.code = g.code
         /\ Caller.uuid = g.uuid
         /\ Caller.binding # g.binding) => Caller.out = AuthFail

\* Such a call has just returned while the activation record is still stored and
\* unexpired, so that only the binding stands against it.
C5_Witness ==
    \E g \in granted :
        /\ Caller.pc = "done"
        /\ Caller.op = "authAgain"
        /\ Caller.code = g.code
        /\ Caller.uuid = g.uuid
        /\ Caller.binding # g.binding
        /\ Truthy(Caller.ciStr)
        /\ JsLt(Num(now), JSONparse(Caller.ciStr.v).value.expirationTime)

\* The stored usage counter of a code: {} when there is none.
Counter(store, code) ==
    IF CodeKey(code) \in DOMAIN store THEN {store[CodeKey(code)].v} ELSE {}

\* Code.auth is running, or has just returned, on issued code c with another product id.
WrongProduct(c) ==
    /\ Caller.op = "auth"
    /\ Caller.code = c.code
    /\ Caller.productId # c.productId

\* C6: a code generated for product A is rejected by Code.verify for every other
\* expected product id, and a Code.auth call with another product id never reads or
\* writes the ledger, leaves the usage counter unchanged and returns (false, "", 0).
C6_ProductIsolation ==
    [][\A c \in issued :
        /\ \A productId \in ProductIds \ {c.productId} :
              ~verify(ServerKey, c.code, productId, now)[1]
        /\ WrongProduct(c) =>
              /\ Counter(kv', c.code) = Counter(kv, c.code)
              /\ Caller'.pc \notin {"get_used", "put"}
              /\ Caller'.pc = "done" => Caller'.out = AuthFail /\ ~Caller'.threw]_vars

\* Such a call has just returned on a code that is unexpired and unused.
C6_Witness ==
    \E c \in issued :
        /\ WrongProduct(c)
        /\ Caller.pc = "done"
        /\ Caller.out = AuthFail
        /\ JsGe(Expiry(c), Num(now))
        /\ Counter(kv, c.code) = {}

\* Code.auth has verified (and rejected) the code it was given.
Rejected ==
    /\ Caller.op = "auth"
    /\ Caller.pc \in {"sleep_invalid", "release", "done"}
    /\ ~Caller.ver[1]

\* C7: Code.verify rejects a code whose absolute expiry is less than the server time,
\* so a code generated with expirationPeriod = -1 at every time from its generation
\* on; Code.auth on a code that its verification rejected returns (false, "", 0)
\* without reading or changing the usage counter, however many uses remain.
C7_Expiry ==
    [][\A c \in issued :
        /\ (JsLt(Expiry(c), Num(now)) \/ c.expirationPeriod = Num(0 - 1)) =>
              /\ \A productId \in ProductIds : ~verify(ServerKey, c.code, productId, now)[1]
              /\ (Caller.op = "auth" /\ Caller.code = c.code /\ Caller.pc = "verify"
                    /\ Caller'.pc # "verify") => Caller'.pc = "sleep_invalid"
        /\ (Rejected /\ Caller.code = c.code) =>
              /\ Caller.usedStr = KvNull
              /\ Counter(kv', c.code) = Counter(kv, c.code)
              /\ Caller.pc = "done" => Caller.out = AuthFail /\ ~Caller.threw]_vars

\* Code.auth has just failed on a code with its own product id and all its uses left,
\* which expired as time passed.
C7_Witness ==
    \E c \in issued :
        /\ Rejected
        /\ Caller.pc = "done"
        /\ Caller.code = c.code
        /\ Caller.productId = c.productId
        /\ c.expirationPeriod = Num(1)
        /\ JsLt(Expiry(c), Num(now))
        /\ Counter(kv, c.code) = {}

\* Two concurrent Code.auth calls on the same code have both returned success after
\* reading the same usage counter.
SameBase(p, q) ==
    /\ p # q
    /\ proc[p].pc = "done" /\ proc[q].pc = "done"
    /\ proc[p].op = "auth" /\ proc[q].op = "auth"
    /\ proc[p].code = proc[q].code
    /\ proc[p].out[1] /\ proc[q].out[1]
    /\ proc[p].usedStr = proc[q].usedStr

\* C3: two concurrent Code.auth calls that both found the lock flag absent and read
\* the same `used` both succeed: they hand out two different uuids with the same
\* remaining count while the stored counter holds used + 1 only (C3_Witness: the
\* successes then exceed maxUses).
C3_StaleBase ==
    \A p, q \in Procs :
        SameBase(p, q) =>
            /\ proc[p].out[2] # proc[q].out[2]
            /\ proc[p].out[3] = proc[q].out[3]
            /\ Counter(kv, proc[p].code) = {NumToString(JsAdd(Used(p), Num(1)))}
            /\ GrantedOf(CodeKey(proc[p].code)) >= 2

\* Both calls succeeded from one base and the successes exceed the code's maxUses.
C3_Witness ==
    \E c \in issued : \E p, q \in Procs :
        /\ SameBase(p, q)
        /\ proc[p].code = c.code
        /\ GrantedOf(CodeKey(c.code)) > c.amount.int

Direct(r) ==
    /\ r.s2 = SuffixOf(r.c.code)
    /\ r.secret = r.c.secret
    /\ r.productId = r.c.productId

\* C2: Code.verify of a generated code, with the secret and product id it was
\* generated with and not after its expiry, returns
\* (true, productId, activationDuration, maxUses).
C2_RoundTrip ==
    \A i \in 1..Len(vres) :
        (Direct(vres[i]) /\ JsLe(Num(vres[i].at), Expiry(vres[i].c))) =>
            vres[i].out = <<TRUE, vres[i].c.productId, vres[i].c.activationDuration,
                            vres[i].c.amount>>

\* C8: the encrypted prefix of a generated code followed by a suffix other than the
\* one it was generated with is rejected by Code.verify, at any time, also with the
\* right secret and product id.
C8_TamperEvident ==
    \A i \in 1..Len(vres) :
        vres[i].s2 # SuffixOf(vres[i].c.code) => vres[i].out = VerifyFail

\* The prefix of one code was verified with the suffix of another valid, unexpired
\* code of the same product.
C8_Witness ==
    \E i \in 1..Len(vres) : \E o \in issued :
        /\ o # vres[i].c
        /\ vres[i].s2 = SuffixOf(o.code)
        /\ vres[i].s2 # SuffixOf(vres[i].c.code)
        /\ verify(o.secret, o.code, o.productId, vres[i].at)[1]
        /\ verify(vres[i].c.secret, vres[i].c.code, vres[i].c.productId, vres[i].at)[1]
        /\ ~vres[i].out[1]

\* The worker takes a request for the activate or the re-authenticate endpoint.
Handled ==
    /\ http.pc = "idle"
    /\ http'.pc # "idle"
    /\ http'.req.endpoint \in {"/auth/reg/code", "/auth/again/reg/code"}

\* The session entry of the identifier the request carries is not in the store: it
\* has expired, or the identifier was never issued.
SessionAbsent == ~Truthy(KvGet(SessionKey(http'.req.body.client_uuid)))

\* Code.auth / Code.authAgain are not called, and no lock flag, usage counter,
\* activation record or session is written or deleted.
LedgerUntouched ==
    /\ proc' = proc
    /\ \A k \in (DOMAIN kv \cup DOMAIN kv') \ {RsaPubKey, RsaPriKey} :
          k \in DOMAIN kv /\ k \in DOMAIN kv' /\ kv'[k] = kv[k]

\* The fields the endpoint of the request requires.
Required ==
    IF http'.req.endpoint = "/auth/reg/code"
    THEN <<"client_uuid", "data_c", "data_i", "data_b">>
    ELSE <<"client_uuid", "data_c", "data_u">>

\* C9 as stated: every call to the activate and re-authenticate endpoints that
\* carries an expired or never-issued identifier fails with SessionExpired, and
\* Code.auth / Code.authAgain are not invoked.
C9_Original ==
    [][(Handled /\ SessionAbsent) =>
          (http'.resp = fail(sessionExpired) /\ LedgerUntouched)]_vars

\* C9: a call to the activate or re-authenticate endpoint that carries an expired or
\* never-issued identifier never invokes Code.auth / Code.authAgain nor touches the
\* ledger; it fails with SessionExpired when all its required fields are present,
\* and with MissingField for the first missing one otherwise.
C9_SessionBounded ==
    [][(Handled /\ SessionAbsent) =>
          /\ LedgerUntouched
          /\ http'.pc = "replied"
          /\ http'.resp = IF validateRequiredFields(http'.req.body, Required) = NoError
                          THEN fail(sessionExpired)
                          ELSE fail(validateRequiredFields(http'.req.body, Required))]_vars

\* A well-formed activation request carrying the identifier of a session that key
\* exchange created, and that has expired since, was answered SessionExpired.
C9_Witness ==
    /\ http.pc = "replied"
    /\ http.req.endpoint = "/auth/reg/code"
    /\ http.req.body.client_uuid = <<[client |-> 1]>>
    /\ http.sessions >= 1
    /\ validateRequiredFields(http.req.body, <<"client_uuid", "data_c", "data_i", "data_b">>)
          = NoError
    /\ decrypt(http.req.body.data_c, KvGet(RsaPriKey).v).err = NoError
    /\ ~Truthy(KvGet(SessionKey(http.req.body.client_uuid)))
    /\ http.resp = fail(sessionExpired)
    /\ proc[Worker].pc = "idle"

(***************************************************************************)
(* Delays, terminal states and re-authentication                           *)
(***************************************************************************)

\* Code.auth has returned a failure to the caller without a thrown store error.
AuthFailed(p) ==
    /\ proc[p].pc = "done"
    /\ proc[p].op = "auth"
    /\ ~proc[p].threw
    /\ ~proc[p].out[1]

\* C11: every failing path of Code.auth (lock contention, failed verification,
\* exhausted uses) sleeps for a randomized delay before it returns (false, "", 0).
C11_DelayOnFailure ==
    \A p \in Procs : AuthFailed(p) => proc[p].slept

\* The usage counter of issued code c has reached the code's maxUses in the store.
UsedUp(store, c) ==
    \E u \in Counter(store, c.code) : JsGe(parseInt(u), c.amount)

\* Caller p passes the limit check of Code.auth on code c in this step (the store
\* did not throw).
ReadsCounter(p, c) ==
    /\ proc[p].pc = "get_used"
    /\ proc[p].code = c.code
    /\ proc'[p].pc # "get_used"
    /\ ~proc'[p].threw

\* No Code.auth call on code c that read the counter earlier has its counter write
\* still to come.
NoWriteInFlight(c) ==
    \A p \in Procs : ~(proc[p].pc = "put" /\ proc[p].code = c.code)

LongCodes ==
    {Issue(ServerKey, Repeat("A", PRODUCT_ID_LENGTH), Num(1), Num(2), Num(amount),
           Repeat("A", RANDOM_S_LENGTH), [i \in 1..IV_LENGTH |-> Byte(0)], 0) :
        amount \in 1..MaxUses}

InitLong ==
    /\ now = 0
    /\ kv = << >>
    /\ \E c \in LongCodes : issued = {c}
    /\ vres = << >>
    /\ proc = [p \in Procs |-> Idle]
    /\ nextUuid = 1
    /\ granted = {}
    /\ http = HttpIdle
    /\ setter = [p \in Procs |-> SetIdle]
    /\ aes = AesIdle

\* One caller activates the issued code and re-authenticates its activations, one call
\* after another, with any binding and uuid, while server time passes.
NextLong ==
    \/ Tick
    \/ \E c \in issued, binding \in Bindings : CallAuth("p1", c.code, c.productId, binding)
    \/ \E c \in issued, uuid \in UuidInputs, binding \in Bindings :
          CallAuthAgain("p1", c.code, uuid, binding)
    \/ Inside("p1")

SpecLong == InitLong /\ [][NextLong]_vars

\* Code.authAgain has just returned on the code, uuid and binding of grant g, after
\* the store answered both reads, and the record of g has not yet expired.
ReauthDone(g) ==
    /\ Caller.pc = "done"
    /\ Caller.op = "authAgain"
    /\ Caller.code = g.code
    /\ Caller.uuid = g.uuid
    /\ Caller.binding = g.binding
    /\ Truthy(Caller.ciStr)
    /\ JsLt(Num(now), JSONparse(Caller.ciStr.v).value.expirationTime)

\* C13: Code.authAgain does not re-check the code's own expiry or usage limit: with
\* the code, uuid and binding of an earlier successful Code.auth and a record whose
\* expirationTime is in the future, it succeeds, also when the code's absolute expiry
\* has passed and when the code is exhausted.
C13_NoRecheck ==
    \A g \in granted : ReauthDone(g) => Caller.out[1]

\* Code.authAgain has just succeeded on a code that has expired and is exhausted.
C13_Witness ==
    \E g \in granted, c \in issued :
        /\ ReauthDone(g)
        /\ g.code = c.code
        /\ JsLt(Expiry(c), Num(now))
        /\ UsedUp(kv, c)
        /\ Caller.out[1]

(***************************************************************************)
(* The advisory lock                                                       *)
(***************************************************************************)

\* The held flag of the lock caller p asks for is present in the store.
FlagPresent(store, p) == LockKey(CodeKey(proc[p].code)) \in DOMAIN store

\* C14: kvLock.acquire(name) decides by the held flag of `name` alone: its read finds
\* the lock free exactly when no flag of that name is present, whatever other names
\* are held; a failed acquire leaves the store as it was, flag included; the write of
\* a successful acquire leaves the flag present and every other entry as it was.
C14_Acquire ==
    [][\A p \in Procs :
          /\ (proc[p].pc = "acq_get" /\ proc'[p].pc # "acq_get") =>
                /\ proc'[p].pc = IF FlagPresent(kv, p) THEN "contended" ELSE "acq_put"
                /\ kv' = kv
          /\ (proc[p].pc = "contended" /\ proc'[p].pc # "contended") => kv' = kv
          /\ (proc[p].pc = "acq_put" /\ proc'[p].pc # "acq_put") =>
                /\ FlagPresent(kv', p)
                /\ \A k \in DOMAIN kv : k # LockKey(CodeKey(proc[p].code)) =>
                      (k \in DOMAIN kv' /\ kv'[k] = kv[k])]_vars

\* One caller has acquired the lock of one code while another caller holds the lock
\* of a different code.
C14_Witness ==
    \E p, q \in Procs :
        /\ proc[p].pc = "verify"
        /\ proc[q].pc \in {"verify", "get_used", "put", "release"}
        /\ proc[p].code # proc[q].code
        /\ FlagPresent(kv, p)
        /\ FlagPresent(kv, q)

(***************************************************************************)
(* The product registry                                                    *)
(***************************************************************************)

\* Admin callers set products concurrently: every step of every caller interleaves
\* with the others'.
NextProduct ==
    \E p \in Procs :
        \/ \E name \in Names : CallSet(p, name)
        \/ WaitGet(p)
        \/ WaitSleep(p)
        \/ WaitPut(p)
        \/ Gets(p)
        \/ PutProducts(p)
        \/ ReleaseSet(p)
        \/ ReturnSet(p)

InitProduct ==
    /\ now = 0
    /\ kv = << >>
    /\ issued = {}
    /\ vres = << >>
    /\ proc = [p \in Procs |-> Idle]
    /\ nextUuid = 1
    /\ granted = {}
    /\ http = HttpIdle
    /\ setter = [p \in Procs |-> SetIdle]
    /\ aes = AesIdle

SpecProduct == InitProduct /\ [][NextProduct]_vars

\* C17: the persisted product list contains no two entries with the same name and no
\* two entries with the same id.
C17_RegistryUnique ==
    \A i, j \in 1..Len(gets(kv)) :
        i # j => (gets(kv)[i].name # gets(kv)[j].name /\ gets(kv)[i].id # gets(kv)[j].id)

\* The positions of a Product.set call inside kvLock.waitAndAcquire.
Waiting == {"wait_get", "wait_sleep", "wait_put"}

\* C15: kvLock.waitAndAcquire(name) returns only from an acquire attempt that returned
\* true, with the held flag of `name` present on return, and never gives up: an
\* attempt that finds the flag present is followed by a sleep and another attempt, so
\* Product.set does not go on while every attempt finds the flag present.
C15_WaitAndAcquire ==
    [][\A p \in Procs :
          /\ (setter[p].pc \in Waiting /\ setter'[p].pc \notin Waiting) =>
                /\ setter[p].pc = "wait_put"
                /\ setter'[p].pc = "gets"
                /\ LockKey(setter[p].name) \in DOMAIN kv'
          /\ (setter[p].pc = "wait_get" /\ setter'[p].pc # "wait_get") =>
                setter'[p].pc = IF LockKey(setter[p].name) \in DOMAIN kv
                                THEN "wait_sleep" ELSE "wait_put"
          /\ (setter[p].pc = "wait_sleep" /\ setter'[p].pc # "wait_sleep") =>
                setter'[p].pc = "wait_get"]_vars

\* A Product.set call has returned from waitAndAcquire after at least one refused
\* attempt, while another call on the same name is still waiting for the lock.
C15_Witness ==
    \E p, q \in Procs :
        /\ setter[p].pc = "gets"
        /\ setter[p].waited
        /\ setter[q].pc = "wait_sleep"
        /\ setter[q].name = setter[p].name
        /\ LockKey(setter[p].name) \in DOMAIN kv

(***************************************************************************)
(* The replay window of the activate endpoint                              *)
(***************************************************************************)

\* data_c of the request taken in this step, decrypted with the server's private key.
TakenDataC == decrypt(http'.req.body.data_c, StoreGet(kv', RsaPriKey).v)

\* The worker takes an activation request of a live session whose three fields
\* decrypt and whose data_c is of the form code:timestamp.
Timestamped ==
    /\ http.pc = "idle"
    /\ http'.pc # "idle"
    /\ http'.req.endpoint = "/auth/reg/code"
    /\ validateRequiredFields(http'.req.body, <<"client_uuid", "data_c", "data_i", "data_b">>)
          = NoError
    /\ Truthy(StoreGet(kv', SessionKey(http'.req.body.client_uuid)))
    /\ Truthy(StoreGet(kv', RsaPriKey))
    /\ TakenDataC.err = NoError
    /\ decrypt(http'.req.body.data_i, StoreGet(kv', RsaPriKey).v).err = NoError
    /\ decrypt(http'.req.body.data_b, StoreGet(kv', RsaPriKey).v).err = NoError
    /\ parseTimestampedData(TakenDataC.text).err = NoError

\* |Date.now() - t| for the timestamp t of the request taken in this step.
Drift ==
    LET t == parseTimestampedData(TakenDataC.text).timestamp.int
    IN  IF DateNow >= t THEN DateNow - t ELSE t - DateNow

\* C16: an activation request whose timestamp differs from the server clock by more
\* than TIMESTAMP_TOLERANCE_MS is answered TimestampExpired and Code.auth is not
\* invoked (no lock, no use consumed), whatever the code; with a difference of at
\* most TIMESTAMP_TOLERANCE_MS the handler calls Code.auth with the code of data_c.
C16_ReplayWindow ==
    [][Timestamped =>
          IF Drift > TIMESTAMP_TOLERANCE_MS
          THEN /\ http'.pc = "replied"
               /\ http'.resp = fail(timestampExpired)
               /\ LedgerUntouched
          ELSE /\ http'.pc = "called"
               /\ proc'[Worker].pc = "acq_get"
               /\ proc'[Worker].op = "auth"
               /\ proc'[Worker].code
                     = AsCode(parseTimestampedData(TakenDataC.text).value)]_vars

\* A request carrying a valid, unexpired, unused code with a timestamp beyond the
\* tolerance was answered TimestampExpired.
C16_Witness ==
    \E c \in issued :
        /\ http.pc = "replied"
        /\ http.req.endpoint = "/auth/reg/code"
        /\ http.resp = fail(timestampExpired)
        /\ Truthy(KvGet(RsaPriKey))
        /\ decrypt(http.req.body.data_c, KvGet(RsaPriKey).v).err = NoError
        /\ AsCode(parseTimestampedData(decrypt(http.req.body.data_c,
                                               KvGet(RsaPriKey).v).text).value) = c.code
        /\ verify(ServerKey, c.code, c.productId, now)[1]
        /\ Counter(kv, c.code) = {}
        /\ proc[Worker].pc = "idle"

(***************************************************************************)
(* Activation records                                                      *)
(***************************************************************************)

\* k is a store key of the form CODE_INFO_PREFIX + uuid.
IsInfoKey(k) ==
    /\ Len(k) > Len(CODE_INFO_PREFIX)
    /\ SubSeq(k, 1, Len(CODE_INFO_PREFIX)) = CODE_INFO_PREFIX

\* The activation records in a store.
Records(store) == {k \in DOMAIN store : IsInfoKey(k)}

\* The Code.auth call of the caller writes its activation record in this step.
WritesRecord == "record" \in Caller.pending /\ "record" \notin Caller'.pending

\* C18: a successful Code.auth creates exactly one new activation record, under
\* `CI:` + uuid for a uuid that no record in the store has; the record holds
\* expirationTime = server time of the call + activationDuration, the code's maxUses
\* and sha256(binding + key), and is stored with TTL activationDuration; every other
\* entry, earlier records included, stays as it was; the call returns only with both
\* writes done.
C18_RecordCreated ==
    [][\A c \in issued :
          /\ (Caller.pc = "get_used" /\ Caller'.pc = "put" /\ Caller.code = c.code) =>
                /\ Caller'.expirationTime = JsAdd(Num(now), c.activationDuration)
                /\ InfoKey(Caller'.newUuid) \notin Records(kv)
          /\ (WritesRecord /\ Caller.code = c.code) =>
                LET k == InfoKey(Caller.newUuid)
                IN  /\ k \notin DOMAIN kv
                    /\ Records(kv') = Records(kv) \cup {k}
                    /\ \A o \in DOMAIN kv \ {k} : o \in DOMAIN kv' /\ kv'[o] = kv[o]
                    /\ kv'[k].v = JSONstringify(
                                    [uuid |-> Caller.newUuid,
                                     binding |-> sha256(Caller.binding \o CodeKey(c.code)),
                                     expirationTime |-> Caller.expirationTime,
                                     amount |-> c.amount])
                    /\ kv'[k].ttl = {now + c.activationDuration.int}
          /\ (Caller.pc = "release" /\ Caller.op = "auth" /\ Caller.out[1]) =>
                /\ Caller.pending = {}
                /\ Caller.out[2] = Caller.newUuid]_vars

\* A code with maxUses = MaxUses has been activated MaxUses times, and the store
\* holds MaxUses records, one for each uuid handed out.
C18_Witness ==
    \E c \in issued :
        /\ c.amount = Num(MaxUses)
        /\ Caller.pc = "done"
        /\ Caller.op = "auth"
        /\ Caller.out[1]
        /\ GrantedOf(CodeKey(c.code)) = MaxUses
        /\ Cardinality(Records(kv)) = MaxUses
        /\ \A g \in granted : InfoKey(g.uuid) \in Records(kv)

\* The caller's Code.authAgain call moves on from position pc in this step.
AgainLeaves(pc) == Caller.op = "authAgain" /\ Caller.pc = pc /\ Caller'.pc # pc

\* C19: Code.authAgain fails with (false, "", 0) when the code has no usage counter,
\* and when no record is stored under the uuid (never created, or removed when its
\* TTL ran out), whatever the binding; in both cases it stops before the record is
\* checked.
C19_MissingState ==
    [][/\ (AgainLeaves("again_used") /\ ~KvGet(CodeKey(Caller.code)).found) =>
             /\ Caller'.pc \in {"sleep_again", "release"}
             /\ ~Truthy(Caller'.usedStr)
       /\ (AgainLeaves("again_info") /\ ~KvGet(InfoKey(Caller.uuid)).found) =>
             /\ Caller'.pc \in {"sleep_again", "release"}
             /\ ~Truthy(Caller'.ciStr)
       /\ AgainLeaves("sleep_again") => Caller'.pc = "release"
       /\ (/\ Caller'.op = "authAgain"
           /\ Caller'.pc \in {"release", "done"}
           /\ (~Truthy(Caller'.usedStr) \/ ~Truthy(Caller'.ciStr))) =>
             Caller'.out = AuthFail]_vars

\* Code.authAgain has just failed with the code, uuid and binding of an earlier
\* successful Code.auth whose record has left the store with its TTL.
C19_Witness ==
    \E g \in granted :
        /\ Caller.pc = "done"
        /\ Caller.op = "authAgain"
        /\ Caller.code = g.code
        /\ Caller.uuid = g.uuid
        /\ Caller.binding = g.binding
        /\ Truthy(Caller.usedStr)
        /\ ~Truthy(Caller.ciStr)
        /\ Caller.slept
        /\ InfoKey(g.uuid) \notin DOMAIN kv
        /\ Caller.out = AuthFail

\* Code.authAgain has just returned success on issued code c.
ReauthGranted(c) ==
    /\ Caller.pc = "done"
    /\ Caller.op = "authAgain"
    /\ Caller.code = c.code
    /\ Caller.out[1]

\* The remaining counts the successful Code.auth calls on code c returned.
GrantedRemaining(c) == {g.remaining : g \in {x \in granted : x.code = c.code}}

\* C20: a successful Code.authAgain reports remaining = record.maxUses - used, with
\* used the current usage counter; when activations do not overlap this is >= 0 and
\* is the remaining count the most recent (the smallest one any) successful Code.auth
\* on the code returned.
C20_Remaining ==
    \A c \in issued :
        ReauthGranted(c) =>
            /\ Counter(kv, c.code) = {Caller.usedStr.v}
            /\ Caller.out[3] = JsSub(JSONparse(Caller.ciStr.v).value.amount,
                                     parseInt(Caller.usedStr.v))
            /\ JSONparse(Caller.ciStr.v).value.amount = c.amount
            /\ JsGe(Caller.out[3], Num(0))
            /\ Caller.out[3] \in GrantedRemaining(c)
            /\ \A r \in GrantedRemaining(c) : JsLe(Caller.out[3], r)

\* After MaxUses activations of a code, Code.authAgain on the first activation has
\* just reported 0 remaining, not the count its own activation returned.
C20_Witness ==
    \E c \in issued, g \in granted :
        /\ ReauthGranted(c)
        /\ c.amount = Num(MaxUses)
        /\ g.code = c.code
        /\ g.uuid = Caller.uuid
        /\ g.remaining = Num(MaxUses - 1)
        /\ Caller.out[3] = Num(0)

(***************************************************************************)
(* The derived-key cache                                                   *)
(***************************************************************************)

\* Concurrent callers derive keys for the server secret and for another one, and
\* the cache is cleared, in any order: the calls interleave at their awaits.
NextCache ==
    \/ ClearCache
    \/ \E p \in Procs :
          \/ \E serverKey \in Secrets : CallGetAesKey(p, serverKey)
          \/ ImportKey(p)
          \/ DeriveKey(p)
          \/ ExportKey(p)
          \/ ReturnKey(p)

SpecCache == InitProduct /\ [][NextCache]_vars

\* C21: every AES.getAesKey(s) call returns the key derived from its own argument s,
\* for any interleaving of getAesKey calls with different secrets and of clearCache
\* calls; and whenever cachedServerKey is not null, cachedAesKeyBuffer is the key
\* derived from cachedServerKey.
C21_CacheCoherent ==
    /\ \A p \in Procs :
          aes.call[p].pc = "done" => aes.call[p].out = getAesKey(aes.call[p].serverKey.s)
    /\ aes.cache.cachedServerKey # [null |-> TRUE] =>
          aes.cache.cachedAesKeyBuffer = getAesKey(aes.cache.cachedServerKey.s)

\* A getAesKey call has returned the key of its own secret while the cache holds the
\* key of another secret, filled by an overlapping call.
C21_Witness ==
    \E p, q \in Procs :
        /\ aes.call[p].pc = "done"
        /\ aes.call[q].pc = "done"
        /\ aes.call[p].serverKey # aes.call[q].serverKey
        /\ aes.cache.cachedServerKey = aes.call[q].serverKey
        /\ aes.call[p].out = getAesKey(aes.call[p].serverKey.s)

(***************************************************************************)
(* Sessions                                                                *)
(***************************************************************************)

\* k is a store key of the form `S:` + clientUuid.
IsSessionKey(k) == Len(k) > 2 /\ SubSeq(k, 1, 2) = Str(<<"S", ":">>)

\* The session entries of a store.
Sessions(store) == [k \in {x \in DOMAIN store : IsSessionKey(x)} |-> store[k]]

\* Key exchange answers a request with a new session in this step.
Exchanged ==
    /\ http.pc = "idle"
    /\ http'.pc = "replied"
    /\ http'.req.endpoint = "/pub/key/exc"
    /\ http'.resp.status = "ok"

\* C22: sessions are created only by key exchange and never mutated afterwards: a
\* key exchange writes exactly one new session entry, under an identifier no entry
\* has, with the client's key and TTL CLIENT_KEY_TTL, and leaves the others as they
\* were; no other step while the clock stands still (the activate and re-authenticate
\* handlers, Code.auth, Code.authAgain) changes any session entry; and a session entry
\* leaves the store only when its TTL has run out.
C22_SessionFrame ==
    [][/\ Exchanged =>
             LET k == SessionKey(http'.resp.client_uuid)
             IN  /\ k \notin DOMAIN kv
                 /\ DOMAIN Sessions(kv') = DOMAIN Sessions(kv) \cup {k}
                 /\ \A o \in DOMAIN Sessions(kv) : kv'[o] = kv[o]
                 /\ kv'[k] = [v |-> trim(http'.req.body.client_pub_key_pem),
                              ttl |-> {now + CLIENT_KEY_TTL}]
       /\ (~Exchanged /\ now' = now) => Sessions(kv') = Sessions(kv)
       /\ now' # now =>
             /\ DOMAIN Sessions(kv') \subseteq DOMAIN Sessions(kv)
             /\ \A o \in DOMAIN Sessions(kv) :
                   IF o \in DOMAIN kv' THEN kv'[o] = kv[o]
                   ELSE \E e \in kv[o].ttl : e <= now']_vars

\* A second key exchange has just added its session next to the first one, after an
\* activation request of the first session was served.
C22_Witness ==
    /\ http.pc = "replied"
    /\ http.req.endpoint = "/pub/key/exc"
    /\ http.resp.status = "ok"
    /\ http.sessions = 2
    /\ Cardinality(DOMAIN Sessions(kv)) = 2
    /\ granted # {}

(***************************************************************************)
(* The ledger under concurrent callers                                     *)
(***************************************************************************)

\* Concurrent callers on the issued code alone, with its own product id and one
\* binding: every step of every caller interleaves with the others'.
NextRace ==
    \E p \in Procs :
        \/ \E c \in issued : CallAuth(p, c.code, c.productId, Str(<<"A">>))
        \/ \E c \in issued, uuid \in RaceUuids : CallAuthAgain(p, c.code, uuid, Str(<<"A">>))
        \/ Contended(p)
        \/ Inside(p)

SpecRace == Init /\ [][NextRace]_vars

\* The usage counters and activation records of a store.
Ledger(store) ==
    [k \in {x \in DOMAIN store : IsInfoKey(x) \/ (~IsLockKey(x) /\ ~IsInfoKey(x)
                                                  /\ SubSeq(x, 1, Len(CODE_PREFIX)) = CODE_PREFIX)}
        |-> store[k]]

\* Caller p takes a step of its Code.auth call.
AuthStep(p) == proc[p].op = "auth" /\ proc'[p] # proc[p] /\ proc[p].pc # "done"

\* C23: a Code.auth call that returns failure (lock contended, verification failed,
\* uses exhausted) leaves the usage counter and every activation record as they were:
\* only a call past the limit check writes them, such a call returns success, and its
\* counter write stores the value it read plus one.
C23_FailureFrame ==
    [][\A p \in Procs :
          /\ (AuthStep(p) /\ proc[p].pc # "put") => Ledger(kv') = Ledger(kv)
          /\ (AuthStep(p) /\ proc[p].pc = "put" /\ "counter" \notin proc'[p].pending
                /\ "counter" \in proc[p].pending) =>
                kv'[CodeKey(proc[p].code)].v
                   = NumToString(JsAdd(IF Truthy(proc[p].usedStr)
                                       THEN parseInt(proc[p].usedStr.v) ELSE Num(0), Num(1)))
          /\ (proc'[p].op = "auth" /\ proc'[p].pc = "done" /\ ~proc'[p].out[1]) =>
                proc'[p].newUuid = << >>
          /\ (proc[p].op = "auth" /\ proc[p].pc = "put") => proc[p].newUuid # << >>]_vars

\* One caller was refused the lock and has returned failure while the other is failing
\* on the exhausted code, and the counter stands where the successful calls left it.
C23_Witness ==
    \E p, q \in Procs, c \in issued :
        /\ proc[p].op = "auth" /\ proc[p].pc = "done" /\ proc[p].ver = VerifyFail
        /\ proc[p].slept /\ proc[p].out = AuthFail
        /\ proc[q].op = "auth" /\ proc[q].pc = "release" /\ proc[q].ver[1]
        /\ Truthy(proc[q].usedStr) /\ proc[q].out = AuthFail
        /\ Counter(kv, c.code) = {NumToString(c.amount)}

\* Caller p is between its acquire and its release.
Critical(p) ==
    proc[p].pc \in {"verify", "sleep_invalid", "get_used", "put", "again_used",
                    "again_info", "sleep_again", "again_check", "release"}

AgainStep(p) == proc[p].op = "authAgain" /\ proc'[p] # proc[p] /\ proc[p].pc # "done"

\* C25: Code.authAgain is read-only on the ledger: every step of a call, on the
\* success path and on every failure path, leaves all usage counters and activation
\* records as they were, and the only store key it writes or deletes is the lock
\* flag of its code; so re-authentications never consume a use.
C25_AgainReadOnly ==
    [][\A p \in Procs :
          AgainStep(p) =>
              /\ Ledger(kv') = Ledger(kv)
              /\ \A k \in (DOMAIN kv \cup DOMAIN kv') \ {LockKey(CodeKey(proc[p].code))} :
                    /\ k \in DOMAIN kv /\ k \in DOMAIN kv'
                    /\ kv'[k] = kv[k]
              /\ granted' = granted]_vars

\* A re-authentication has succeeded and released the lock, a second one has failed,
\* and the counter of the code still shows the one activation.
C25_Witness ==
    \E p, q \in Procs, c \in issued :
        /\ p # q
        /\ proc[p].op = "authAgain" /\ proc[p].pc = "done" /\ proc[p].out[1]
        /\ proc[q].op = "authAgain" /\ proc[q].pc = "done" /\ ~proc[q].out[1]
        /\ Counter(kv, c.code) = {NumToString(Num(1))}
        /\ GrantedOf(CodeKey(c.code)) = 1

\* The stored usage counter of code c as a number, 0 when the key is absent.
CounterValue(store, c) ==
    IF CodeKey(c.code) \in DOMAIN store THEN parseInt(store[CodeKey(c.code)].v) ELSE Num(0)

\* Caller p performs the counter write of its Code.auth call on code c in this step.
CounterWrite(p, c) ==
    /\ proc[p].op = "auth" /\ proc[p].code = c.code /\ proc[p].pc = "put"
    /\ "counter" \in proc[p].pending
    /\ "counter" \notin proc'[p].pending

\* The usage counter of every issued code never decreases, for any interleaving of
\* concurrent Code.auth calls (the statement of C26 as written).
C26_Monotone ==
    [][\A c \in issued : JsGe(CounterValue(kv', c), CounterValue(kv, c))]_vars

\* C26: the usage counter of a code changes only in the counter write of a Code.auth
\* call on that code, which stores the value that call read plus one, and the key is
\* never deleted; a write by a call whose read value is still the stored value raises
\* the counter by one. (A call overtaken between its read and its write stores a
\* smaller value than the one present.)
C26_FreshWriteRaises ==
    [][\A c \in issued :
          /\ CounterValue(kv', c) # CounterValue(kv, c) =>
                \E p \in Procs :
                    /\ CounterWrite(p, c)
                    /\ CounterValue(kv', c) = JsAdd(Used(p), Num(1))
          /\ CodeKey(c.code) \in DOMAIN kv => CodeKey(c.code) \in DOMAIN kv'
          /\ \A p \in Procs :
                (CounterWrite(p, c) /\ Used(p) = CounterValue(kv, c)) =>
                    CounterValue(kv', c) = JsAdd(CounterValue(kv, c), Num(1))]_vars

\* Two Code.auth calls that both read the counter before either wrote have both been
\* granted on a code, and the counter shows one use.
C26_Witness ==
    \E c \in issued :
        /\ GrantedOf(CodeKey(c.code)) = 2
        /\ CounterValue(kv, c) = Num(1)
        /\ \A p \in Procs : proc[p].pc = "done" /\ proc[p].op = "auth" /\ proc[p].out[1]

\* 1 when the write w of the caller's Code.auth call is still to come, else 0.
ToCome(w) == IF w \in Caller.pending THEN 1 ELSE 0

\* 1 when the caller's Code.auth call has passed the limit check and not yet released
\* the lock, else 0.
Unreturned == IF Caller.op = "auth" /\ Caller.pc \in {"put", "release"} /\ Caller.newUuid # << >>
              THEN 1 ELSE 0

\* C27: ledger consistency when Code.auth calls on a code do not overlap and store
\* writes do not fail: with no call between its limit check and its return, the usage
\* counter equals the number of successful activations of the code, which is the
\* number of activation records ever created for it, and is at most maxUses; inside a
\* call the three numbers differ only by the writes that call has still to do.
C27_LedgerConsistent ==
    \A c \in issued :
        LET created == nextUuid - 1
            written == created - ToCome("record")
        IN  /\ CounterValue(kv, c) = Num(created - ToCome("counter"))
            /\ GrantedOf(CodeKey(c.code)) = created - Unreturned
            /\ JsLe(CounterValue(kv, c), c.amount)
            /\ created <= c.amount.int
            /\ Cardinality(Records(kv)) <= written
            /\ now < c.activationDuration.int => Cardinality(Records(kv)) = written
            /\ Unreturned = 0 => Caller.pending = {}

\* A code with maxUses = MaxUses has been activated MaxUses times, a further call has
\* failed at the limit check, and counter, successes and records all stand at
\* MaxUses.
C27_Witness ==
    \E c \in issued :
        /\ c.amount = Num(MaxUses)
        /\ Caller.op = "auth" /\ Caller.pc = "done" /\ Caller.out = AuthFail
        /\ Truthy(Caller.usedStr)
        /\ CounterValue(kv, c) = Num(MaxUses)
        /\ GrantedOf(CodeKey(c.code)) = MaxUses
        /\ Cardinality(Records(kv)) = MaxUses

(***************************************************************************)
(* The ledger behind an indivisible acquire                                *)
(***************************************************************************)

\* kvLock.acquire with its check and its write as one step: the flag is read and,
\* when absent, written before any other caller runs.
AcquireAtomic(p) ==
    /\ proc[p].pc = "acq_get"
    /\ IF KvGet(LockKey(CodeKey(proc[p].code))).found
       THEN /\ proc' = [proc EXCEPT ![p].pc = "contended"]
            /\ UNCHANGED kv
       ELSE /\ kv' = KvPut(kv, LockKey(CodeKey(proc[p].code)), Held)
            /\ proc' = [proc EXCEPT ![p].pc =
                            IF proc[p].op = "auth" THEN "verify" ELSE "again_used"]
    /\ UNCHANGED <<now, issued, vres, nextUuid, granted, http, setter, aes>>

\* The steps of caller p between its acquire and its return.
Guarded(p) ==
    \/ Verify(p)
    \/ SleepInvalid(p)
    \/ GetUsed(p)
    \/ PutCounter(p)
    \/ PutRecord(p)
    \/ AgainGetUsed(p)
    \/ AgainGetInfo(p)
    \/ SleepAgain(p)
    \/ AgainCheck(p)
    \/ Release(p)
    \/ Return(p)

\* Concurrent callers on the issued code, as in NextRace, with the indivisible acquire.
NextAtomic ==
    \E p \in Procs :
        \/ \E c \in issued : CallAuth(p, c.code, c.productId, Str(<<"A">>))
        \/ \E c \in issued, uuid \in RaceUuids : CallAuthAgain(p, c.code, uuid, Str(<<"A">>))
        \/ AcquireAtomic(p)
        \/ Contended(p)
        \/ Guarded(p)

SpecAtomic == Init /\ [][NextAtomic]_vars

\* C28: if the check and the write of acquire are one indivisible step, then for every
\* code at most one Code.auth / Code.authAgain call is between its successful acquire
\* and its release at any time, the lock flag is in the store exactly while a call is
\* there, and the number of successful activations of the code never exceeds its
\* maxUses, under every interleaving.
C28_AtomicAcquire ==
    \A c \in issued :
        LET inside == {p \in Procs : Critical(p) /\ proc[p].code = c.code}
        IN  /\ Cardinality(inside) <= 1
            /\ (inside # {}) <=> (LockKey(CodeKey(c.code)) \in DOMAIN kv)
            /\ GrantedOf(CodeKey(c.code)) <= c.amount.int
            /\ nextUuid - 1 <= c.amount.int
            /\ JsLe(CounterValue(kv, c), c.amount)

\* A code with maxUses = MaxUses has been activated MaxUses times by the two callers
\* in turn; one caller is inside a further call while the other has been refused the
\* lock.
C28_Witness ==
    \E p, q \in Procs, c \in issued :
        /\ c.amount = Num(MaxUses)
        /\ GrantedOf(CodeKey(c.code)) = MaxUses
        /\ {g.uuid : g \in granted} = {<<[uuid |-> n]>> : n \in 1..MaxUses}
        /\ proc[p].op = "auth" /\ proc[p].pc = "get_used"
        /\ proc[q].op = "auth" /\ proc[q].pc = "contended"

(***************************************************************************)
(* Two codes of one product                                                *)
(***************************************************************************)

\* Two codes issued for the same product with the same parameters, differing in
\* their random salt alone.
TwoCodes ==
    {Issue(ServerKey, Repeat("A", PRODUCT_ID_LENGTH), Num(1), Num(2), Num(1),
           randomS, [i \in 1..IV_LENGTH |-> Byte(0)], 0) :
        randomS \in randomString(RANDOM_S_LENGTH)}

InitTwo ==
    /\ now = 0
    /\ kv = << >>
    /\ issued = TwoCodes
    /\ vres = << >>
    /\ proc = [p \in Procs |-> Idle]
    /\ nextUuid = 1
    /\ granted = {}
    /\ http = HttpIdle
    /\ setter = [p \in Procs |-> SetIdle]
    /\ aes = AesIdle

\* One caller activates either code, with either product id, and re-authenticates
\* with any pairing of code, uuid and binding, one call after another.
NextTwo ==
    \/ \E c \in issued, productId \in ProductIds, binding \in Bindings :
          CallAuth("p1", c.code, productId, binding)
    \/ \E c \in issued, uuid \in UuidInputs, binding \in Bindings :
          CallAuthAgain("p1", c.code, uuid, binding)
    \/ Inside("p1")

SpecTwo == InitTwo /\ [][NextTwo]_vars

\* Code.authAgain has just returned on code Y with the uuid and binding that a
\* successful Code.auth on another code handed out as grant g.
CrossReauth(g) ==
    /\ Caller.pc = "done"
    /\ Caller.op = "authAgain"
    /\ Caller.uuid = g.uuid
    /\ Caller.binding = g.binding
    /\ Caller.code # g.code

\* C29: an activation uuid is bound to the code it was issued for: Code.authAgain
\* with the uuid and binding of a successful Code.auth on code X but another code Y
\* returns (false, "", 0), also when Y has itself been activated with the same
\* binding; a Code.authAgain that succeeds presents the code its uuid was issued for.
C29_UuidBoundToCode ==
    /\ \A g \in granted : CrossReauth(g) => Caller.out = AuthFail
    /\ (Caller.pc = "done" /\ Caller.op = "authAgain" /\ Caller.out[1]) =>
          \E g \in granted :
              g.uuid = Caller.uuid /\ g.code = Caller.code /\ g.binding = Caller.binding

\* Both codes have been activated with the same binding, and Code.authAgain on the
\* second with the uuid of the first has failed although the counter of the second
\* and the record of the uuid were both found, unexpired.
C29_Witness ==
    \E g, h \in granted :
        /\ CrossReauth(g)
        /\ h.code = Caller.code
        /\ h.binding = g.binding
        /\ Truthy(Caller.usedStr)
        /\ Truthy(Caller.ciStr)
        /\ JsLt(Num(now), JSONparse(Caller.ciStr.v).value.expirationTime)
        /\ Caller.out = AuthFail

\* C30: no lost product: when two concurrent Product.set calls with two different
\* names have both returned success, Product.get finds both products in the persisted
\* list, each with the id its call returned.
C30_NoLostProduct ==
    \A p, q \in Procs :
        (/\ p # q
         /\ setter[p].pc = "done" /\ setter[p].out[1]
         /\ setter[q].pc = "done" /\ setter[q].out[1]
         /\ setter[p].name # setter[q].name) =>
            /\ get(kv, setter[p].name) = <<TRUE, setter[p].out[2]>>
            /\ get(kv, setter[q].name) = <<TRUE, setter[q].out[2]>>

\* C31: Product.set with a name that, trimmed, is already in the registry returns
\* [false, ""], writes nothing to the product list and releases the lock of the name;
\* Product.set with an empty or blank name returns [false, ""] at once, without
\* acquiring a lock and without writing the store.
C31_SetRefused ==
    [][\A p \in Procs :
          /\ (setter[p].pc = "idle" /\ setter'[p].pc = "wait_get") =>
                setter'[p].name # << >>
          /\ (setter[p].pc = "idle" /\ setter'[p].pc = "done") =>
                /\ setter'[p].name = << >>
                /\ setter'[p].out = SetFail
                /\ kv' = kv
          /\ (setter[p].pc = "gets" /\ setter'[p].pc # "gets" /\ ~setter'[p].threw
                /\ get(kv, setter[p].name)[1]) =>
                /\ setter'[p].pc = "release"
                /\ setter'[p].out = SetFail
                /\ kv' = kv
          /\ (setter[p].pc = "release" /\ setter'[p].pc = "done") =>
                /\ setter'[p].out = setter[p].out
                /\ gets(kv') = gets(kv)
                /\ LockKey(setter[p].name) \notin DOMAIN kv'
                /\ \A k \in DOMAIN kv \ {LockKey(setter[p].name)} :
                      k \in DOMAIN kv' /\ kv'[k] = kv[k]]_vars

\* One call has been refused for a name that is in the list with the id an earlier
\* call gave it and has released the lock of the name; the other call was made with a
\* blank name and returned at once.
C31_Witness ==
    \E p, q \in Procs :
        /\ p # q
        /\ setter[p].pc = "done" /\ setter[p].name # << >> /\ ~setter[p].threw
        /\ setter[p].out = SetFail
        /\ get(kv, setter[p].name)[1]
        /\ LockKey(setter[p].name) \notin DOMAIN kv
        /\ setter[q].pc = "done" /\ setter[q].name = << >> /\ setter[q].out = SetFail

(***************************************************************************)
(* Code.verify on arbitrary input                                          *)
(***************************************************************************)

\* The try block of Code.verify throws on this input: atob rejects the text, or
\* AES.decrypt throws (short data, or a ciphertext that does not authenticate).
Raises(aesKey, code) ==
    LET dec == Base64_toUint8Array(code)
    IN  \/ ~dec.ok
        \/ /\ findNthColonFromEnd(dec.bytes, 3) # 0 - 1
           /\ ~AES_decrypt(SubSeq(dec.bytes, 1, findNthColonFromEnd(dec.bytes, 3)),
                           getAesKey(aesKey)).ok

\* Texts that are not generated codes, made from issued code c: no Base64; fewer than
\* three colon bytes; a prefix of one byte; the prefix of c with its first nonce byte
\* changed; a prefix sealed under the server key whose plaintext has two parts only.
Malformed(c) ==
    {Garbage,
     Base64_fromBuffer(TextEncode(Str(<<"A", ":">>))),
     Base64_fromBuffer(<<Byte(1)>> \o TextEncode(SuffixOf(c.code))),
     Base64_fromBuffer(<<Byte(1)>> \o Tail(c.code.b64)),
     Base64_fromBuffer(AES_encrypt(Str(<<"A", ":", "B">>), getAesKey(ServerKey),
                                   [i \in 1..IV_LENGTH |-> Byte(0)])
                       \o TextEncode(SuffixOf(c.code)))}

\* Mutant: Code.verify without its catch, so that what the try block throws reaches
\* the caller.
VerifyInput_noCatch ==
    /\ vres = << >>
    /\ \E c \in issued, secret \in Secrets, productId \in ProductIds :
       \E code \in Malformed(c) \cup {c.code} :
          vres' = <<[c |-> c, s2 |-> << >>, secret |-> secret, productId |-> productId,
                     at |-> now, code |-> code, raised |-> Raises(secret, code),
                     out |-> verify(secret, code, productId, now)]>>
    /\ UNCHANGED <<now, kv, issued, proc, nextUuid, granted, http, setter, aes>>

\* A direct call Code.verify(secret, code, productId) on any text; the catch of
\* Code.verify turns whatever the try block throws into [false, "", 0, 0].
VerifyInput ==
    /\ vres = << >>
    /\ \E c \in issued, secret \in Secrets, productId \in ProductIds :
       \E code \in Malformed(c) \cup {c.code} :
          vres' = <<[c |-> c, s2 |-> << >>, secret |-> secret, productId |-> productId,
                     at |-> now, code |-> code, raised |-> FALSE,
                     out |-> verify(secret, code, productId, now)]>>
    /\ UNCHANGED <<now, kv, issued, proc, nextUuid, granted, http, setter, aes>>

NextInputs == Tick \/ VerifyInput \/ VerifyReturn

\* Direct verification of generated codes and of other texts as time passes.
SpecInputs == Init /\ [][NextInputs]_vars

\* C32: Code.verify is total: on a text that is not Base64, has fewer than three
\* colon bytes, has a prefix shorter than 28 bytes, has a prefix that does not
\* authenticate (tampered, or sealed under another server secret) or decrypts to
\* fewer than three parts, it returns (false, "", 0, 0); and on no input does an
\* error reach its caller.
C32_VerifyTotal ==
    \A i \in 1..Len(vres) :
        /\ ~vres[i].raised
        /\ Len(vres[i].out) = 4
        /\ (vres[i].code \in Malformed(vres[i].c) \/ vres[i].secret # vres[i].c.secret) =>
              vres[i].out = VerifyFail

\* A generated, unexpired code was verified with its own product id under another
\* server secret: AES.decrypt threw, and the call returned (false, "", 0, 0).
C32_Witness ==
    \E i \in 1..Len(vres) :
        /\ vres[i].code = vres[i].c.code
        /\ vres[i].secret # vres[i].c.secret
        /\ vres[i].productId = vres[i].c.productId
        /\ verify(vres[i].c.secret, vres[i].code, vres[i].productId, vres[i].at)[1]
        /\ Raises(vres[i].secret, vres[i].code)
        /\ vres[i].out = VerifyFail

(***************************************************************************)
(* The split of a code into prefix and suffix                              *)
(***************************************************************************)

\* Byte buffers are scanned up to this length.
MaxLen == 5

\* The buffers of colon bytes and other bytes of length at most MaxLen.
Buffers ==
    UNION {[1..len -> {Byte(COLON_CHAR_CODE), Byte(0)}] : len \in 0..MaxLen}

\* Codes generated with either nonce (one of them made of colon bytes), a whole or a
\* fractional duration and any usage limit.
SplitCodes ==
    {Issue(ServerKey, Repeat("A", PRODUCT_ID_LENGTH), Num(1), duration, Num(amount),
           Repeat("A", RANDOM_S_LENGTH), iv, 0) :
        duration \in Durations, amount \in 1..MaxUses, iv \in RandomIvs}

\* findNthColonFromEnd(data, n) on any buffer.
Scan ==
    /\ vres = << >>
    /\ \E data \in Buffers, n \in 1..3 :
          vres' = <<[data |-> data, n |-> n, prefix |-> 0 - 1,
                     out |-> findNthColonFromEnd(data, n)]>>
    /\ UNCHANGED <<now, kv, issued, proc, nextUuid, granted, http, setter, aes>>

\* findNthColonFromEnd(codeU8, 3) on any buffer followed by the suffix of a generated
\* code, as Code.verify calls it.
ScanSuffixed ==
    /\ vres = << >>
    /\ \E u1 \in Buffers, c \in SplitCodes :
          LET codeU8 == u1 \o TextEncode(SuffixOf(c.code))
          IN  vres' = <<[data |-> codeU8, n |-> 3, prefix |-> Len(u1),
                         out |-> findNthColonFromEnd(codeU8, 3)]>>
    /\ UNCHANGED <<now, kv, issued, proc, nextUuid, granted, http, setter, aes>>

\* findNthColonFromEnd(codeU8, 3) on a generated code.
ScanCode ==
    /\ vres = << >>
    /\ \E c \in SplitCodes :
          LET codeU8 == Base64_toUint8Array(c.code).bytes
          IN  vres' = <<[data |-> codeU8, n |-> 3,
                         prefix |-> Len(codeU8) - Len(TextEncode(SuffixOf(c.code))),
                         out |-> findNthColonFromEnd(codeU8, 3)]>>
    /\ UNCHANGED <<now, kv, issued, proc, nextUuid, granted, http, setter, aes>>

NextSplit == Scan \/ ScanSuffixed \/ ScanCode \/ VerifyReturn

SpecSplit == InitCodec /\ [][NextSplit]_vars

\* 1-based positions of the colon bytes of a buffer.
Colons(data) == {i \in 1..Len(data) : data[i] = Byte(COLON_CHAR_CODE)}

\* C33: findNthColonFromEnd(data, n) returns the index i with data[i] a colon byte
\* and exactly n - 1 colon bytes after it, or -1 when data has fewer than n colon
\* bytes; on a generated code, and on any bytes followed by the suffix of a generated
\* code, the index for n = 3 is the length of the part before the suffix, whatever
\* colon bytes that part holds.
C33_SplitRule ==
    \A k \in 1..Len(vres) :
        LET data == vres[k].data
            n    == vres[k].n
            out  == vres[k].out
        IN  /\ IF Cardinality(Colons(data)) < n
               THEN out = 0 - 1
               ELSE /\ out + 1 \in Colons(data)
                    /\ Cardinality({j \in Colons(data) : j > out + 1}) = n - 1
            /\ vres[k].prefix # 0 - 1 => out = vres[k].prefix

\* The split of a generated code whose nonce is made of colon bytes was found behind
\* its encrypted prefix.
C33_Witness ==
    \E k \in 1..Len(vres) :
        /\ vres[k].n = 3
        /\ vres[k].out = vres[k].prefix
        /\ vres[k].prefix = IV_LENGTH + 1
        /\ Cardinality(Colons(vres[k].data)) = IV_LENGTH + 3

\* The text is a decimal integer: one or more digits and nothing else.
IsDecimal(s) == s # << >> /\ \A i \in 1..Len(s) : IsDigit(s[i])

\* The suffix `:expiry:duration:amount` has a field that is not a decimal integer.
MalformedSuffix(s2) ==
    LET s2Parts == split(s2, Ch(":"))
    IN  \/ Len(s2Parts) < 4
        \/ \E k \in 2..4 : ~IsDecimal(s2Parts[k])

\* C34: Code.verify rejects every code whose plaintext suffix is malformed, i.e. has an
\* expiry, duration or maxUses field that is not a decimal integer, also when the
\* integrity hash matches the suffix because the code was generated that way.
C34_MalformedRejected ==
    \A i \in 1..Len(vres) : MalformedSuffix(vres[i].s2) => vres[i].out = VerifyFail

(***************************************************************************)
(* Expiry of codes and of activations                                      *)
(***************************************************************************)

\* One caller activates the issued code and re-authenticates, one call after another,
\* with the code's own product id and one binding, while server time passes between
\* and inside the calls.
NextExpiry ==
    \/ Tick
    \/ \E c \in issued : CallAuth("p1", c.code, c.productId, Str(<<"A">>))
    \/ \E c \in issued, uuid \in UuidInputs : CallAuthAgain("p1", c.code, uuid, Str(<<"A">>))
    \/ Inside("p1")

SpecExpiry == Init /\ [][NextExpiry]_vars

\* The record Code.authAgain has read, when it is the record of the uuid and binding
\* the caller presents.
OwnRecord ==
    LET parsed == JSONparse(Caller.ciStr.v)
    IN  IF /\ Truthy(Caller.ciStr)
           /\ parsed.ok
           /\ parsed.value.uuid = Caller.uuid
           /\ parsed.value.binding = sha256(Caller.binding \o CodeKey(Caller.code))
        THEN {parsed.value}
        ELSE {}

\* C35: Code.verify accepts a code at the instant now = absoluteExpiry and rejects it
\* exactly when absoluteExpiry < now; Code.authAgain rejects an activation record at
\* the instant now = expirationTime and accepts it exactly when expirationTime > now.
C35_ExpiryBoundaries ==
    [][/\ \A c \in issued :
             verify(ServerKey, c.code, c.productId, now)[1] <=> JsGe(Expiry(c), Num(now))
       /\ \A r \in OwnRecord :
             AgainLeaves("again_check") =>
                 (Caller'.out[1] <=> JsLt(Num(now), r.expirationTime))]_vars

\* A code was activated at the instant of its absolute expiry, and Code.authAgain,
\* having read the record of that activation, has rejected it at the instant of the
\* record's expirationTime.
C35_Witness ==
    \E c \in issued : \E r \in OwnRecord :
        /\ Caller.op = "authAgain" /\ Caller.pc = "done" /\ Caller.code = c.code
        /\ r.expirationTime = Num(now)
        /\ JsSub(r.expirationTime, c.activationDuration) = Expiry(c)
        /\ Caller.out = AuthFail

(***************************************************************************)
(* Code.auth when a store write fails                                      *)
(***************************************************************************)

\* The store after the write `which` of caller p's Code.auth call has landed.
Landed(p, which) ==
    IF which \in {"counter", "late_counter"}
    THEN KvPut(kv, CodeKey(proc[p].code), NumToString(NewUsed(p)))
    ELSE KvPutTtl(kv, InfoKey(proc[p].newUuid), JSONstringify(CodeInfo(p)),
                  proc[p].ver[3].int)

\* The write left in flight when Promise.all has rejected.
Late(pending) ==
    {IF w = "counter" THEN "late_counter" ELSE "late_record" : w \in pending}

\* Mutant: the rejection of a write is swallowed and the call returns success.
RejectWrite_swallowed(p) ==
    /\ proc[p].pc = "put"
    /\ \E w \in proc[p].pending :
          proc' = [proc EXCEPT ![p].pc = "release", ![p].out = AuthSuccess(p),
                               ![p].pending = Late(proc[p].pending \ {w})]
    /\ UNCHANGED <<now, kv, issued, vres, nextUuid, granted, http, setter, aes>>

\* One of the two kv.put of Promise.all rejects: Promise.all rejects at once, the
\* error leaves the try block, and the finally runs while the other write, if it has
\* not landed yet, is still in flight.
RejectWrite(p) ==
    /\ proc[p].pc = "put"
    /\ \E w \in proc[p].pending :
          proc' = [proc EXCEPT ![p].pc = "release", ![p].threw = TRUE,
                               ![p].pending = Late(proc[p].pending \ {w})]
    /\ UNCHANGED <<now, kv, issued, vres, nextUuid, granted, http, setter, aes>>

\* The write left in flight lands after Promise.all has rejected.
LateWrite(p) ==
    /\ proc[p].pc \in {"release", "done"}
    /\ \E w \in proc[p].pending :
          /\ w \in {"late_counter", "late_record"}
          /\ kv' = Landed(p, w)
          /\ proc' = [proc EXCEPT ![p].pending = {}]
    /\ UNCHANGED <<now, issued, vres, nextUuid, granted, http, setter, aes>>

\* One caller activates the issued code and re-authenticates, one call after another,
\* while time passes and either write of Code.auth may fail.
NextWrites ==
    \/ Tick
    \/ \E c \in issued : CallAuth("p1", c.code, c.productId, Str(<<"A">>))
    \/ \E c \in issued, uuid \in UuidInputs : CallAuthAgain("p1", c.code, uuid, Str(<<"A">>))
    \/ Inside("p1")
    \/ RejectWrite("p1")
    \/ LateWrite("p1")

SpecWrites == InitLong /\ [][NextWrites]_vars

\* A write of the caller's Code.auth call has failed.
WriteFailed == Caller.op = "auth" /\ Caller.threw /\ Caller.newUuid # << >>

\* C36: when Code.auth returns success with uuid u both writes have landed: the
\* counter holds the incremented value and the record of u is in the store (until the
\* activation runs out); when one
\* of the two writes fails the call does not return success, the lock of the code is
\* still released, and what the other write has stored is not taken back.
C36_TwoWrites ==
    [][/\ (Caller.op = "auth" /\ Caller.pc = "put" /\ Caller'.pc = "release"
             /\ ~Caller'.threw) =>
             /\ Caller'.out = AuthSuccess("p1")
             /\ Caller'.pending = {}
             /\ kv'[CodeKey(Caller.code)].v = NumToString(NewUsed("p1"))
             /\ JsLt(Num(now), Caller.expirationTime) => InfoKey(Caller.newUuid) \in DOMAIN kv'
       /\ (Caller.op = "auth" /\ Caller'.pc \in {"release", "done"} /\ Caller'.out[1]) =>
             ~Caller'.threw
       /\ (WriteFailed /\ Caller.pc = "release" /\ Caller'.pc = "done") =>
             /\ LockKey(CodeKey(Caller.code)) \notin DOMAIN kv'
             /\ Ledger(kv') = Ledger(kv)
             /\ granted' = granted
       /\ (WriteFailed /\ now' = now) =>
             \A k \in DOMAIN Ledger(kv) :
                 /\ k \in DOMAIN kv'
                 /\ kv'[k] = kv[k] \/ kv' = Landed("p1", "late_counter")]_vars

\* The record write of a Code.auth call failed after its counter write had landed:
\* the call has ended with the error, the lock is released, the use is consumed and
\* no record of the uuid exists.
C36_Witness ==
    /\ WriteFailed
    /\ Caller.pc = "done"
    /\ Caller.pending = {}
    /\ ~Caller.out[1]
    /\ Counter(kv, Caller.code) = {NumToString(NewUsed("p1"))}
    /\ InfoKey(Caller.newUuid) \notin DOMAIN kv
    /\ LockKey(CodeKey(Caller.code)) \notin DOMAIN kv
    /\ now = 0

\* The worker answers a request whose Code.auth / Code.authAgain call succeeded.
Answers(op) ==
    /\ http.pc = "called"
    /\ http'.pc = "replied"
    /\ proc[Worker].op = op
    /\ ~proc[Worker].threw
    /\ proc[Worker].out[1]

\* The response body that carries the text `text` to the client of the request.
Sealed(text) == ok(encrypt(text, http.clientPubPem).text)

\* C37: a successful Code.authAgain returns as second component the expirationTime of
\* the stored record, as a string, and not the activation uuid, while a successful
\* Code.auth returns the new uuid there; the endpoints put that value unchanged
\* between `true:` and `:remaining` of the encrypted response.
C37_SecondComponent ==
    [][/\ Answers("authAgain") =>
             LET out      == proc[Worker].out
                 codeInfo == JSONparse(proc[Worker].ciStr.v).value
             IN  /\ out[2] = NumToString(codeInfo.expirationTime)
                 /\ out[2] # proc[Worker].uuid
                 /\ http'.resp = Sealed(Str(<<"t", "r", "u", "e", ":">>) \o out[2]
                                         \o Colon \o NumToString(out[3]))
       /\ Answers("auth") =>
             LET out == proc[Worker].out
             IN  /\ out[2] = proc[Worker].newUuid
                 /\ http'.resp = Sealed(Str(<<"t", "r", "u", "e", ":">>) \o out[2]
                                         \o Colon \o NumToString(out[3]))]_vars

\* The re-authenticate endpoint has answered a successful call with the encrypted
\* text `true:<expirationTime>:<remaining>` of an activation of the issued code.
C37_Witness ==
    \E g \in granted : \E t \in 1..(MaxTime + 1) : \E r \in 0..MaxUses :
        /\ http.pc = "replied"
        /\ http.req.endpoint = "/auth/again/reg/code"
        /\ http.resp = Sealed(Str(<<"t", "r", "u", "e", ":">>) \o NumToString(Num(t))
                               \o Colon \o NumToString(Num(r)))

(***************************************************************************)
(* Liveness of Product.set                                                 *)
(***************************************************************************)

\* One step of a running Product.set call of caller p; starting a call is the
\* admin's choice and is not a step of the call.
SetStep(p) ==
    \/ WaitGet(p)
    \/ WaitSleep(p)
    \/ WaitPut(p)
    \/ Gets(p)
    \/ PutProducts(p)
    \/ ReleaseSet(p)
    \/ ReturnSet(p)

\* The event loop resumes every pending await and every timer: a call that can
\* take a step takes one.  No caller is obliged to call again.
SpecProductFair ==
    InitProduct /\ [][NextProduct]_vars /\ \A p \in Procs : WF_vars(SetStep(p))

\* Caller p is in the retry loop of waitAndAcquire.
InWait(p) == setter[p].pc \in Waiting

\* Caller p's Product.set has returned.
Returned(p) == setter[p].pc = "done"

\* Another caller's acquire attempt writes the held flag of the name p waits for.
RivalAcquires(p) ==
    \E q \in Procs \ {p} : WaitPut(q) /\ setter[q].name = setter[p].name

\* C38: under weak fairness of every caller, every Product.set call waiting in
\* waitAndAcquire eventually acquires the lock and returns.
C38_NoStarvation == \A p \in Procs : InWait(p) ~> Returned(p)

\* C38, amended: under weak fairness of every caller, a Product.set call waiting in
\* waitAndAcquire acquires the lock and returns unless other callers acquire the
\* lock of the same name again and again without end; a waiter can be starved by
\* such callers.
C38_StarvedOnlyByRivals ==
    \A p \in Procs : (InWait(p) ~> Returned(p)) \/ []<><<RivalAcquires(p)>>_vars

\* A caller that found the lock of its name held, slept and retried has acquired
\* the lock, stored its product and returned, while the other caller waits on the
\* same name.
C38_Witness ==
    \E p \in Procs : \E q \in Procs \ {p} :
        /\ Returned(p)
        /\ setter[p].waited
        /\ setter[p].out[1]
        /\ InWait(q)
        /\ setter[q].name = setter[p].name

====
